---- MODULE Spec2Model ----
(***************************************************************************)
(* Model of the playback core of the mp3 player.                           *)
(*                                                                         *)
(* AudioPlayer (src/player.py) is modelled as a set of processes: the      *)
(* controlling (UI) thread, process 0, and the playback threads 1..N, one  *)
(* per successful load_and_play.  Every read or write of a shared field is *)
(* its own step unless merging it with its neighbour loses no behaviour.   *)
(*                                                                         *)
(* Time is counted in frames: a seconds argument s is represented by the   *)
(* frame number s * frame_rate, so clamping to [0, duration] is clamping   *)
(* that number to [0, frame_count].                                        *)
(*                                                                         *)
(* Timing abstraction of thread.join(timeout=1.0): the join returns when   *)
(* the joined thread has terminated, or by timeout when the joined thread  *)
(* sits in a blocking call (the device write, or a join of its own).       *)
(* Every other step of a playback thread takes far less than a second      *)
(* (the paused sleep is 50 ms).                                            *)
(***************************************************************************)
EXTENDS Integers, Sequences, FiniteSets, TLC

\* ---------------------------------------------------------------- bounds
\* Number of calls the controller makes in a run (load_and_play, stop, pause,
\* resume, toggle_pause, seek); every playback thread costs one of them.
MaxCalls == 2
\* The same for the specification with fairness, LiveSpec, which also bounds
\* the number of load_and_play calls among them.
LiveCalls == 3
LiveSessions == 1
\* Longest decoded buffer, in frames.
MaxFrames == 2

\* ------------------------------------------------------ program constants
SampleWidth == 2
Channels == 2
\* chunk_frames of the playback loop, in model frames (one model frame stands
\* for 2048 frames of the program).
ChunkFrames == 1
FrameSize == SampleWidth * Channels

Min(a, b) == IF a <= b THEN a ELSE b
Max(a, b) == IF a >= b THEN a ELSE b

Ctl == 0
Threads == 1..Max(MaxCalls, LiveSessions)
Procs == {Ctl} \cup Threads
None == 0

\* Lengths in bytes the decode collaborator may return: nothing, less than
\* one frame, or 1..MaxFrames whole frames.
BufLens == {0, 2} \cup {FrameSize * k : k \in 1..MaxFrames}
\* Positions handed to load_and_play and seek, in frames, also out of range.
SeekArgs == {-1, 1, MaxFrames + 1}

VARIABLES
    pc,                 \* position of every process in its code
    ctl_op,             \* the controller's running call: "none", "stop", "load"
    ctl_start,          \* start_seconds of the running load_and_play
    joinee,             \* local `thread` of a running stop(), per process
    stop_event,         \* self._stop_event
    thread_ref,         \* self._thread (None or a thread)
    stream,             \* self._stream (None or a handle)
    open,               \* the handles opened and not yet closed
    raw_len,            \* len(self._raw_audio)
    frame_count,        \* self._frame_count
    position_frame,     \* self._position_frame
    playing,            \* self._playing
    paused,             \* self._paused
    end_frame,          \* local end_frame of a playback thread
    wr_stream,          \* the handle a playback thread's write was called on
    reached_end,        \* local reached_end of a playback thread
    should_fire_callback, \* local should_fire_callback of a playback thread
    nthreads,           \* playback threads created so far
    calls,              \* controller calls left
    loads_left,         \* load_and_play calls left
    cb_stops,           \* on_track_end calls stop() (else it only posts an event)
    \* history variables, read by the properties only
    fired,              \* per thread: on_track_end invocations
    stopped,            \* per thread: stop() was called before it fired
    session_fired,      \* on_track_end invocations since the last thread start
    session_stopped,    \* stop() was called since the last thread start
    seek_pending,       \* targets of the seek no playback thread has read yet
    wrote_last,         \* the last chunk of the current buffer was written
    write_failed,       \* per thread: its device write raised
    open_failed,        \* per thread: its opening of the device raised
    pstop               \* per thread: the controller's stop() on a paused session

\* PlaylistManager (src/playlist_manager.py) and its caller's arguments
VARIABLES
    songs,              \* the list the importer hands to set_playlist
    playlist,           \* self.playlist
    filtered_playlist,  \* self.filtered_playlist
    index,              \* self.index
    search_query,       \* self.search_query
    shuffle_seed,       \* self.shuffle_seed (NoneText for None)
    song_stats,         \* self.song_stats
    saved_playlists,    \* self.saved_playlists
    stats_file,         \* stats.json on disk
    saved_file,         \* saved_playlists.json on disk
    call,               \* the PlaylistManager call that has just returned
    store_ops,          \* calls left that write a file
    \* history variables, read by the properties only
    prev_call,          \* the call before, where a property relates two calls
    first_shuf,         \* seed and result of the first shuffle of the canonical list
    good_stats,         \* stats.json as its last successful write left it
    good_saved          \* saved_playlists.json as its last successful write left it

VARIABLES
    meta_path,          \* the stem of the path read_audio_metadata is called with
    probe,              \* what running ffprobe on the file gives
    sidecars,           \* the .info.json candidates beside the file, in the order tried
    metadata            \* what the call of read_audio_metadata returned or raised

mdvars == << meta_path, probe, sidecars, metadata >>

VARIABLES
    pcm_chunk,          \* the chunk handed to _scale_pcm
    pcm_volume,         \* the volume handed to _scale_pcm, in units of 1/VolumeUnit
    pcm_out             \* what _scale_pcm returned (NoneText before the call)

pcmvars == << pcm_chunk, pcm_volume, pcm_out >>

VARIABLES
    _metadata_generation,   \* MainWindow._metadata_generation
    metadata_thread,        \* MainWindow.metadata_thread: a worker, 0 for None
    _metadata_cache,        \* MainWindow._metadata_cache: key -> what was read
    _art_cache,             \* MainWindow._art_cache: key -> pixmap, 0 for None
    workers,                \* every PlaylistMetadataThread started, in order
    events,                 \* the signals queued for the UI thread, oldest first
    playback,               \* the track a playback thread plays, "none" for none
    stat_calls,             \* history: the update_stat calls, with the calling thread
    handled,                \* history: the signal handled last
    refreshes               \* history: number of _refresh_playlist_view calls

uivars == << _metadata_generation, metadata_thread, _metadata_cache, _art_cache,
             workers, events, playback, stat_calls, handled, refreshes >>

pmstate == << playlist, filtered_playlist, index, search_query, shuffle_seed >>
pmstore == << song_stats, saved_playlists, stats_file, saved_file, store_ops,
             good_stats, good_saved >>
pmhist == << prev_call, first_shuf >>
pmvars == << songs, pmstate, pmstore, call, pmhist >>

\* The state of the AudioPlayer and of its threads.
player == << pc, ctl_op, ctl_start, joinee, stop_event, thread_ref, stream, open,
             raw_len, frame_count, position_frame, playing, paused, end_frame,
             wr_stream, reached_end, should_fire_callback, nthreads, calls,
             loads_left, cb_stops, fired, stopped, session_fired,
             session_stopped, seek_pending, wrote_last, write_failed, open_failed,
             pstop >>

\* What no step of the AudioPlayer writes: the behaviour of on_track_end and
\* the other components.
outside == << cb_stops, pmvars, mdvars, pcmvars, uivars >>

\* What no call of the PlaylistManager, of read_audio_metadata and of
\* _scale_pcm writes.
other_pm == << player, mdvars, pcmvars, uivars >>
other_md == << player, pmvars, pcmvars, uivars >>
other_pcm == << player, pmvars, mdvars, uivars >>
\* what the window's handlers leave alone: all but its own fields and
\* playlist_manager.index
other_ui == << player, songs, playlist, filtered_playlist, search_query, shuffle_seed,
               pmstore, call, pmhist, mdvars, pcmvars >>

vars == << player, pmvars, mdvars, pcmvars, uivars >>

shared == << stop_event, thread_ref, stream, open, raw_len, frame_count,
             position_frame, playing, paused >>
locals == << end_frame, wr_stream, reached_end, should_fire_callback >>
ctlvars == << ctl_op, ctl_start, nthreads, calls, loads_left >>
hist == << fired, stopped, session_fired, session_stopped, seek_pending,
           wrote_last, write_failed, open_failed, pstop >>

IsAlive(t) == t /= None /\ pc[t] \notin {"unborn", "done"}
\* The thread sits in a call that can block for longer than the join timeout.
Blocked(t) == pc[t] \in {"in_write", "join"}

\* clamped = max(0.0, min(seconds, duration)); int(clamped * frame_rate)
ClampFrame(s, fc) == Max(0, Min(s, fc))

\* AudioPlayer.__init__
Constructed ==
    /\ pc = [p \in Procs |-> IF p = Ctl THEN "idle" ELSE "unborn"]
    /\ ctl_op = "none"
    /\ ctl_start = 0
    /\ joinee = [p \in Procs |-> None]
    /\ stop_event = FALSE
    /\ thread_ref = None
    /\ stream = None
    /\ open = {}
    /\ raw_len = 0
    /\ frame_count = 0
    /\ position_frame = 0
    /\ playing = FALSE
    /\ paused = FALSE
    /\ end_frame = [t \in Threads |-> 0]
    /\ wr_stream = [t \in Threads |-> None]
    /\ reached_end = [t \in Threads |-> FALSE]
    /\ should_fire_callback = [t \in Threads |-> FALSE]
    /\ nthreads = 0
    /\ cb_stops \in BOOLEAN
    /\ fired = [t \in Threads |-> 0]
    /\ stopped = [t \in Threads |-> FALSE]
    /\ session_fired = 0
    /\ session_stopped = FALSE
    /\ seek_pending = {}
    /\ wrote_last = FALSE
    /\ write_failed = [t \in Threads |-> FALSE]
    /\ open_failed = [t \in Threads |-> FALSE]
    /\ pstop = [t \in Threads |-> "no"]

\* ------------------------------------------------------------------ stop()
\* self._stop_event.set(); thread = self._thread; the join condition; without
\* a join, self._thread = None.
Stop1(p) ==
    /\ pc[p] = "stop1"
    /\ stop_event' = TRUE
    /\ IF IsAlive(thread_ref) /\ thread_ref /= p
       THEN /\ joinee' = [joinee EXCEPT ![p] = thread_ref]
            /\ pc' = [pc EXCEPT ![p] = "join"]
            /\ UNCHANGED thread_ref
       ELSE /\ thread_ref' = None
            /\ pc' = [pc EXCEPT ![p] = "sclose1"]
            /\ UNCHANGED joinee
    /\ stopped' = [t \in Threads |->
                      stopped[t] \/ (IsAlive(t) /\ fired[t] = 0)]
    /\ session_stopped' = TRUE
    /\ pstop' = [t \in Threads |->
                    IF p = Ctl /\ paused /\ t = thread_ref /\ IsAlive(t)
                       /\ pstop[t] = "no"
                    THEN (IF pc[t] = "loop" THEN "wait" ELSE "busy")
                    ELSE pstop[t]]
    /\ UNCHANGED << stream, open, raw_len, frame_count, position_frame,
                    playing, paused, locals, ctlvars, outside, fired,
                    session_fired, seek_pending, wrote_last, write_failed,
                    open_failed >>

\* thread.join(timeout=1.0) returns because the thread has terminated.
JoinReturns(p) ==
    /\ pc[p] = "join"
    /\ ~IsAlive(joinee[p])
    /\ thread_ref' = None
    /\ joinee' = [joinee EXCEPT ![p] = None]
    /\ pc' = [pc EXCEPT ![p] = "sclose1"]
    /\ UNCHANGED << stop_event, stream, open, raw_len, frame_count, position_frame,
                    playing, paused, locals, ctlvars, outside, hist >>

\* Mutant: a join without a timeout.
JoinWithoutTimeout(p) ==
    /\ pc[p] = "join"
    /\ FALSE
    /\ UNCHANGED vars

\* thread.join(timeout=1.0) returns by timeout, the thread still alive.
JoinTimesOut(p) ==
    /\ pc[p] = "join"
    /\ IsAlive(joinee[p])
    /\ Blocked(joinee[p])
    /\ thread_ref' = None
    /\ joinee' = [joinee EXCEPT ![p] = None]
    /\ pc' = [pc EXCEPT ![p] = "sclose1"]
    /\ UNCHANGED << stop_event, stream, open, raw_len, frame_count, position_frame,
                    playing, paused, locals, ctlvars, outside, hist >>

\* _close_stream, in two steps: the test of self._stream with the calls of
\* stop_stream() and close() on it, and self._stream = None.
CloseCalls(p, at, body, after) ==
    /\ pc[p] = at
    /\ open' = open \ {stream}
    /\ pc' = [pc EXCEPT ![p] = IF stream = None THEN after ELSE body]
    /\ UNCHANGED << stop_event, thread_ref, stream, raw_len, frame_count,
                    position_frame, playing, paused, locals, ctlvars, joinee,
                    outside, hist >>

CloseClear(p, at, after) ==
    /\ pc[p] = at
    /\ stream' = None
    /\ pc' = [pc EXCEPT ![p] = after]
    /\ UNCHANGED << stop_event, thread_ref, open, raw_len, frame_count,
                    position_frame, playing, paused, locals, ctlvars, joinee,
                    outside, hist >>

StopClose1(p) == CloseCalls(p, "sclose1", "sclose2", "sflags")
StopClose2(p) == CloseClear(p, "sclose2", "sflags")

\* Where stop() returns to: the playback thread ends after its callback, the
\* controller goes on with load_and_play or is done.
AfterStop(p) ==
    IF p /= Ctl THEN "done" ELSE IF ctl_op = "load" THEN "decode" ELSE "idle"

\* Mutant: stop() leaves the paused flag as it is.
StopFlagsKeepPaused(p) ==
    /\ pc[p] = "sflags"
    /\ playing' = FALSE
    /\ pc' = [pc EXCEPT ![p] = AfterStop(p)]
    /\ ctl_op' = IF p = Ctl /\ ctl_op = "stop" THEN "none" ELSE ctl_op
    /\ UNCHANGED << stop_event, thread_ref, stream, open, raw_len, frame_count,
                    position_frame, paused, locals, ctl_start, nthreads, calls,
                    loads_left, joinee, outside, hist >>

\* self._playing = False; self._paused = False; return
StopFlags(p) ==
    /\ pc[p] = "sflags"
    /\ playing' = FALSE
    /\ paused' = FALSE
    /\ pc' = [pc EXCEPT ![p] = AfterStop(p)]
    /\ ctl_op' = IF p = Ctl /\ ctl_op = "stop" THEN "none" ELSE ctl_op
    /\ UNCHANGED << stop_event, thread_ref, stream, open, raw_len, frame_count,
                    position_frame, locals, ctl_start, nthreads, calls, loads_left, joinee,
                    outside, hist >>

\* ------------------------------------------------- the controller's calls
\* player.stop()
CallStop ==
    /\ pc[Ctl] = "idle"
    /\ calls > 0
    /\ calls' = calls - 1
    /\ ctl_op' = "stop"
    /\ pc' = [pc EXCEPT ![Ctl] = "stop1"]
    /\ UNCHANGED << shared, locals, ctl_start, nthreads, loads_left, joinee,
                    outside, hist >>

\* Mutant: load_and_play decodes without stopping the session first.
CallLoadWithoutStop(s) ==
    /\ pc[Ctl] = "idle"
    /\ calls > 0
    /\ loads_left > 0
    /\ calls' = calls - 1
    /\ loads_left' = loads_left - 1
    /\ ctl_op' = "load"
    /\ ctl_start' = s
    /\ pc' = [pc EXCEPT ![Ctl] = "decode"]
    /\ UNCHANGED << shared, locals, nthreads, joinee, outside, hist >>

\* player.load_and_play(path, start_seconds): self.stop() comes first
CallLoad(s) ==
    /\ pc[Ctl] = "idle"
    /\ calls > 0
    /\ loads_left > 0
    /\ calls' = calls - 1
    /\ loads_left' = loads_left - 1
    /\ ctl_op' = "load"
    /\ ctl_start' = s
    /\ pc' = [pc EXCEPT ![Ctl] = "stop1"]
    /\ UNCHANGED << shared, locals, nthreads, joinee, outside, hist >>

\* _decode_audio raises: ffmpeg missing or non-zero status
DecodeFails ==
    /\ pc[Ctl] = "decode"
    /\ ctl_op' = "none"
    /\ ctl_start' = 0
    /\ pc' = [pc EXCEPT ![Ctl] = "raised"]
    /\ UNCHANGED << shared, locals, nthreads, calls, loads_left, joinee, outside, hist >>

\* the caller of load_and_play handles the error
Raised ==
    /\ pc[Ctl] = "raised"
    /\ pc' = [pc EXCEPT ![Ctl] = "idle"]
    /\ UNCHANGED << shared, locals, ctlvars, joinee, outside, hist >>

\* _decode_audio returns len bytes; frame_count and position_frame are set
Decode(len) ==
    /\ pc[Ctl] = "decode"
    /\ raw_len' = len
    /\ frame_count' = len \div FrameSize
    /\ position_frame' = ClampFrame(ctl_start, len \div FrameSize)
    /\ seek_pending' = {}
    /\ wrote_last' = FALSE
    /\ ctl_start' = 0
    /\ pc' = [pc EXCEPT ![Ctl] = "start"]
    /\ UNCHANGED << stop_event, thread_ref, stream, open, playing, paused, locals,
                    ctl_op, nthreads, calls, loads_left, joinee, outside, fired, stopped,
                    session_fired, session_stopped, write_failed, open_failed,
                    pstop >>

\* _stop_event.clear(); _paused = False; _playing = True; Thread(...).start()
StartThread ==
    /\ pc[Ctl] = "start"
    /\ stop_event' = FALSE
    /\ paused' = FALSE
    /\ playing' = TRUE
    /\ nthreads' = nthreads + 1
    /\ thread_ref' = nthreads + 1
    /\ pc' = [pc EXCEPT ![Ctl] = "idle", ![nthreads + 1] = "begin"]
    /\ ctl_op' = "none"
    /\ session_fired' = 0
    /\ session_stopped' = FALSE
    /\ UNCHANGED << stream, open, raw_len, frame_count, position_frame, locals,
                    ctl_start, calls, loads_left, joinee, outside, fired, stopped, seek_pending,
                    wrote_last, write_failed, open_failed,
                    pstop >>

\* pause(): the test of self._playing
CallPause ==
    /\ pc[Ctl] = "idle"
    /\ calls > 0
    /\ calls' = calls - 1
    /\ pc' = [pc EXCEPT ![Ctl] = IF playing THEN "pause2" ELSE "idle"]
    /\ UNCHANGED << shared, locals, ctl_op, ctl_start, nthreads, loads_left, joinee, outside,
                    hist >>

\* resume(): the test of self._playing
CallResume ==
    /\ pc[Ctl] = "idle"
    /\ calls > 0
    /\ calls' = calls - 1
    /\ pc' = [pc EXCEPT ![Ctl] = IF playing THEN "resume2" ELSE "idle"]
    /\ UNCHANGED << shared, locals, ctl_op, ctl_start, nthreads, loads_left, joinee, outside,
                    hist >>

\* toggle_pause(): the test of self._paused, then that of resume() or pause()
CallTogglePause ==
    /\ pc[Ctl] = "idle"
    /\ calls > 0
    /\ calls' = calls - 1
    /\ pc' = [pc EXCEPT ![Ctl] =
                IF ~playing THEN "idle" ELSE IF paused THEN "resume2" ELSE "pause2"]
    /\ UNCHANGED << shared, locals, ctl_op, ctl_start, nthreads, loads_left, joinee, outside,
                    hist >>

\* pause(): self._paused = True
Pause2 ==
    /\ pc[Ctl] = "pause2"
    /\ paused' = TRUE
    /\ pc' = [pc EXCEPT ![Ctl] = "idle"]
    /\ UNCHANGED << stop_event, thread_ref, stream, open, raw_len, frame_count,
                    position_frame, playing, locals, ctlvars, joinee, outside,
                    hist >>

\* resume(): self._paused = False
Resume2 ==
    /\ pc[Ctl] = "resume2"
    /\ paused' = FALSE
    /\ pc' = [pc EXCEPT ![Ctl] = "idle"]
    /\ UNCHANGED << stop_event, thread_ref, stream, open, raw_len, frame_count,
                    position_frame, playing, locals, ctlvars, joinee, outside,
                    hist >>

\* seek(seconds), under the lock
Seek(s) ==
    /\ pc[Ctl] = "idle"
    /\ calls > 0
    /\ calls' = calls - 1
    /\ position_frame' = ClampFrame(s, frame_count)
    /\ seek_pending' = IF playing THEN {ClampFrame(s, frame_count)} ELSE seek_pending
    /\ UNCHANGED << pc, stop_event, thread_ref, stream, open, raw_len, frame_count,
                    playing, paused, locals, ctl_op, ctl_start, nthreads,
                    loads_left, joinee, outside, fired, stopped, session_fired,
                    session_stopped, wrote_last, write_failed, open_failed,
                    pstop >>

\* -------------------------------------------------------- _playback_loop
\* if not self._raw_audio: return
BeginEmpty(t) ==
    /\ pc[t] = "begin"
    /\ raw_len = 0
    /\ pc' = [pc EXCEPT ![t] = "done"]
    /\ UNCHANGED << shared, locals, ctlvars, joinee, outside, hist >>

\* self._stream = self._pa.open(...)
OpenStream(t) ==
    /\ pc[t] = "begin"
    /\ raw_len /= 0
    /\ stream' = t
    /\ open' = open \cup {t}
    /\ pc' = [pc EXCEPT ![t] = "loop"]
    /\ UNCHANGED << stop_event, thread_ref, raw_len, frame_count, position_frame,
                    playing, paused, locals, ctlvars, joinee, outside, hist >>

\* self._pa.open raises: _playing = False; _paused = False; return
OpenFails(t) ==
    /\ pc[t] = "begin"
    /\ raw_len /= 0
    /\ playing' = FALSE
    /\ paused' = FALSE
    /\ pc' = [pc EXCEPT ![t] = "done"]
    /\ open_failed' = [open_failed EXCEPT ![t] = TRUE]
    /\ UNCHANGED << stop_event, thread_ref, stream, open, raw_len, frame_count,
                    position_frame, locals, ctlvars, joinee, outside, fired,
                    stopped, session_fired, session_stopped, seek_pending,
                    wrote_last, write_failed, pstop >>

\* Mutant: the paused wait does not test the stop signal.
LoopExitUnlessPaused(t) ==
    /\ pc[t] = "loop"
    /\ stop_event
    /\ ~paused
    /\ pc' = [pc EXCEPT ![t] = "close1"]
    /\ UNCHANGED << shared, locals, ctlvars, joinee, outside, hist >>

\* while not self._stop_event.is_set(): the stop signal ends the loop
LoopExit(t) ==
    /\ pc[t] = "loop"
    /\ stop_event
    /\ pc' = [pc EXCEPT ![t] = "close1"]
    /\ UNCHANGED << shared, locals, ctlvars, joinee, outside, hist >>

\* if self._paused: time.sleep(0.05); continue
PausedSleep(t) ==
    /\ pc[t] = "loop"
    /\ ~stop_event
    /\ paused
    /\ UNCHANGED vars

\* neither stopped nor paused: go on to the next chunk
LoopContinue(t) ==
    /\ pc[t] = "loop"
    /\ ~stop_event
    /\ ~paused
    /\ pc' = [pc EXCEPT ![t] = "read"]
    /\ UNCHANGED << shared, locals, ctlvars, joinee, outside, hist >>

\* len(self._raw_audio[start_byte:end_byte])
ChunkLen(start, end) ==
    Max(0, Min(end * FrameSize, raw_len) - Min(start * FrameSize, raw_len))

\* with self._lock: start_frame = self._position_frame; the end test, the
\* chunk window, and the call of self._stream.write(chunk)
ReadChunk(t) ==
    /\ pc[t] = "read"
    /\ LET start == position_frame
           end == Min(start + ChunkFrames, frame_count)
       IN  IF start >= frame_count \/ ChunkLen(start, end) = 0
           THEN /\ reached_end' = [reached_end EXCEPT ![t] = TRUE]
                /\ pc' = [pc EXCEPT ![t] = "close1"]
                /\ UNCHANGED << end_frame, wr_stream, write_failed >>
           ELSE IF stream = None \/ stream \notin open
           THEN \* write on None or on a closed stream raises
                /\ write_failed' = [write_failed EXCEPT ![t] = TRUE]
                /\ pc' = [pc EXCEPT ![t] = "close1"]
                /\ UNCHANGED << end_frame, wr_stream, reached_end >>
           ELSE /\ end_frame' = [end_frame EXCEPT ![t] = end]
                /\ wr_stream' = [wr_stream EXCEPT ![t] = stream]
                /\ pc' = [pc EXCEPT ![t] = "in_write"]
                /\ UNCHANGED << reached_end, write_failed >>
    /\ pstop' = [pstop EXCEPT ![t] =
                    IF pc'[t] = "in_write" /\ @ \in {"wait", "busy"}
                    THEN (IF @ = "wait" THEN "wait_wrote" ELSE "busy_wrote")
                    ELSE @]
    /\ seek_pending' = {}
    /\ UNCHANGED << shared, should_fire_callback, ctlvars, joinee, outside, fired,
                    stopped, session_fired, session_stopped, wrote_last,
                    open_failed >>

\* the write returns; with self._lock: self._position_frame = end_frame
WriteReturns(t) ==
    /\ pc[t] = "in_write"
    /\ position_frame' = end_frame[t]
    /\ wrote_last' = (wrote_last \/ end_frame[t] = frame_count)
    /\ wr_stream' = [wr_stream EXCEPT ![t] = None]
    /\ end_frame' = [end_frame EXCEPT ![t] = 0]
    /\ pc' = [pc EXCEPT ![t] = "loop"]
    /\ UNCHANGED << stop_event, thread_ref, stream, open, raw_len, frame_count,
                    playing, paused, reached_end, should_fire_callback,
                    ctlvars, joinee, outside, fired, stopped, session_fired,
                    session_stopped, seek_pending, write_failed, open_failed,
                    pstop >>

\* the write raises: break
WriteFails(t) ==
    /\ pc[t] = "in_write"
    /\ write_failed' = [write_failed EXCEPT ![t] = TRUE]
    /\ wr_stream' = [wr_stream EXCEPT ![t] = None]
    /\ end_frame' = [end_frame EXCEPT ![t] = 0]
    /\ pc' = [pc EXCEPT ![t] = "close1"]
    /\ UNCHANGED << shared, reached_end, should_fire_callback, ctlvars,
                    joinee, outside, fired, stopped, session_fired,
                    session_stopped, seek_pending, wrote_last, open_failed,
                    pstop >>

\* self._close_stream() after the loop
LoopClose1(t) == CloseCalls(t, "close1", "close2", "fire_test")
LoopClose2(t) == CloseClear(t, "close2", "fire_test")

\* should_fire_callback = reached_end and not self._stop_event.is_set()
ShouldFire(t) ==
    /\ pc[t] = "fire_test"
    /\ should_fire_callback' =
          [should_fire_callback EXCEPT ![t] = reached_end[t] /\ ~stop_event]
    /\ pc' = [pc EXCEPT ![t] = "flags"]
    /\ UNCHANGED << shared, end_frame, wr_stream, reached_end, ctlvars, joinee,
                    outside, hist >>

\* Mutant: the flags are not cleared before the notification.
ClearFlagsSkipped(t) ==
    /\ pc[t] = "flags"
    /\ pc' = [pc EXCEPT ![t] = "notify"]
    /\ UNCHANGED << shared, locals, ctlvars, joinee, outside, hist >>

\* self._playing = False; self._paused = False
ClearFlags(t) ==
    /\ pc[t] = "flags"
    /\ playing' = FALSE
    /\ paused' = FALSE
    /\ pc' = [pc EXCEPT ![t] = "notify"]
    /\ UNCHANGED << stop_event, thread_ref, stream, open, raw_len, frame_count,
                    position_frame, locals, ctlvars, joinee, outside, hist >>

\* if should_fire_callback and self.on_track_end is not None: on_track_end()
Notify(t) ==
    /\ pc[t] = "notify"
    /\ should_fire_callback[t]
    /\ fired' = [fired EXCEPT ![t] = @ + 1]
    /\ session_fired' = session_fired + 1
    /\ pc' = [pc EXCEPT ![t] = IF cb_stops THEN "stop1" ELSE "done"]
    /\ UNCHANGED << shared, locals, ctlvars, joinee, outside, stopped,
                    session_stopped, seek_pending, wrote_last, write_failed,
                    open_failed,
                    pstop >>

\* no notification: the thread ends
NoNotify(t) ==
    /\ pc[t] = "notify"
    /\ ~should_fire_callback[t]
    /\ pc' = [pc EXCEPT ![t] = "done"]
    /\ UNCHANGED << shared, locals, ctlvars, joinee, outside, hist >>

\* ========================================================= PlaylistManager
\* Text is a sequence of one-character strings, a path is the text str(path)
\* gives.  None, where the code has a str or None, is the text NoneText, which
\* no program text equals.
NoneText == << "None" >>

\* ------------------------------------------------------------------ bounds
\* Longest list handed to set_playlist and to _seeded_shuffle.
MaxSongs == 3
\* Largest counter value the statistics file holds when the program starts.
MaxCount == 1

\* ----------------------------------------------------------------- text
\* str.lower() on the characters the model uses
LowerChar(c) ==
    CASE c = "A" -> "a"
      [] c = "M" -> "m"
      [] c = "P" -> "p"
      [] OTHER -> c

Lower(s) == [i \in 1..Len(s) |-> LowerChar(s[i])]

\* the code point of a character: Python compares str values by code point
Ord(c) ==
    CASE c = " " -> 32
      [] c = "." -> 46
      [] c = "/" -> 47
      [] c = "1" -> 49
      [] c = "2" -> 50
      [] c = "3" -> 51
      [] c = "4" -> 52
      [] c = "7" -> 55
      [] c = "A" -> 65
      [] c = "M" -> 77
      [] c = "P" -> 80
      [] c = "a" -> 97
      [] c = "b" -> 98
      [] c = "c" -> 99
      [] c = "d" -> 100
      [] c = "m" -> 109
      [] c = "p" -> 112
      [] c = "t" -> 116
      [] c = "x" -> 120

\* a < b for str values
RECURSIVE StrLess(_, _)
StrLess(a, b) ==
    IF b = << >> THEN FALSE
    ELSE IF a = << >> THEN TRUE
    ELSE IF Ord(Head(a)) /= Ord(Head(b)) THEN Ord(Head(a)) < Ord(Head(b))
    ELSE StrLess(Tail(a), Tail(b))

\* str.strip()
RECURSIVE LStrip(_)
LStrip(s) == IF s /= << >> /\ Head(s) = " " THEN LStrip(Tail(s)) ELSE s

RECURSIVE RStrip(_)
RStrip(s) ==
    IF s /= << >> /\ s[Len(s)] = " " THEN RStrip(SubSeq(s, 1, Len(s) - 1)) ELSE s

Strip(s) == RStrip(LStrip(s))

\* needle in hay
Contains(needle, hay) ==
    \E i \in 0..(Len(hay) - Len(needle)) : SubSeq(hay, i + 1, i + Len(needle)) = needle

\* the last position of character c in s, 0 when there is none
LastIndexOf(s, c) ==
    LET at == {i \in 1..Len(s) : s[i] = c}
    IN  IF at = {} THEN 0 ELSE CHOOSE i \in at : \A k \in at : k <= i

\* Path.name
Name(p) == SubSeq(p, LastIndexOf(p, "/") + 1, Len(p))

\* Path.suffix: from the last dot of the name, unless the name starts or ends
\* with it
Suffix(p) ==
    LET name == Name(p)
        dot == LastIndexOf(name, ".")
    IN  IF dot > 1 /\ dot < Len(name) THEN SubSeq(name, dot, Len(name)) ELSE << >>

\* ---------------------------------------------------------- the file system
Dir == << "/", "m", "/" >>
Mp3 == << ".", "m", "p", "3" >>
TrackUpperA == Dir \o << "A" >> \o Mp3
TrackLowerA == Dir \o << "a" >> \o Mp3
TrackB == Dir \o << "b" >> \o << ".", "M", "P", "3" >>
TextFile == Dir \o << "c" >> \o << ".", "t", "x", "t" >>
Missing == Dir \o << "d" >> \o Mp3

\* Paths the callers of PlaylistManager hand in, and those that exist.
Paths == {TrackUpperA, TrackLowerA, TrackB, TextFile, Missing}
OnDisk == Paths \ {Missing}

SUPPORTED_EXTENSIONS ==
    { Mp3,
      << ".", "w", "a", "v" >>,
      << ".", "o", "g", "g" >>,
      << ".", "f", "l", "a", "c" >>,
      << ".", "m", "4", "a" >>,
      << ".", "a", "a", "c" >> }

\* p.exists() and p.suffix.lower() in SUPPORTED_EXTENSIONS
Accepted == {p \in Paths : p \in OnDisk /\ Lower(Suffix(p)) \in SUPPORTED_EXTENSIONS}
Supported(p) == p \in Accepted

\* the lists of at most n different paths
ListsUpTo(n) ==
    {list \in UNION {[1..k -> Paths] : k \in 0..n} :
        \A i, j \in 1..Len(list) : list[i] = list[j] => i = j}

\* ------------------------------------------------------------------ sorting
_playlist_sort_key(song) == Lower(song)

\* key(x) < key(y), worked out once for every pair of paths
KeyLess == [x \in Paths, y \in Paths |->
               StrLess(_playlist_sort_key(x), _playlist_sort_key(y))]

\* One insertion of sorted(..., key=_playlist_sort_key): x goes behind every
\* element whose key is not greater (sorted is stable).
RECURSIVE SortedInsert(_, _)
SortedInsert(lst, x) ==
    IF lst = << >> THEN << x >>
    ELSE IF KeyLess[x, Head(lst)]
         THEN << x >> \o lst
         ELSE << Head(lst) >> \o SortedInsert(Tail(lst), x)

RECURSIVE SortedPrefix(_, _)
SortedPrefix(lst, n) ==
    IF n = 0 THEN << >> ELSE SortedInsert(SortedPrefix(lst, n - 1), lst[n])

\* sorted(lst, key=self._playlist_sort_key)
Sorted(lst) == SortedPrefix(lst, Len(lst))

\* ------------------------------------------------- 64-bit state arithmetic
\* A state of the generator is a 64-bit number, written as its 8 bytes, most
\* significant first, as int.from_bytes(digest[:8], byteorder="big") reads it.
WordBytes == 8
ByteBase == 256
LCG_MULTIPLIER == << 88, 81, 244, 45, 76, 149, 127, 45 >>
LCG_INCREMENT == << 20, 5, 123, 126, 247, 103, 129, 79 >>

\* the byte of weight ByteBase^k
ByteAt(w, k) == w[WordBytes - k]

\* the sum of a[i] * m[k - i] for i in 0..n
RECURSIVE Convolve(_, _, _, _)
Convolve(a, m, k, n) ==
    IF n < 0 THEN 0
    ELSE ByteAt(a, n) * ByteAt(m, k - n) + Convolve(a, m, k, n - 1)

\* bytes k..7, least significant first, of a * m + c, given the carry into k
RECURSIVE MulAddFrom(_, _, _, _, _)
MulAddFrom(a, m, c, k, carry) ==
    IF k = WordBytes THEN << >>
    ELSE LET total == Convolve(a, m, k, k) + ByteAt(c, k) + carry
         IN  << total % ByteBase >> \o MulAddFrom(a, m, c, k + 1, total \div ByteBase)

Reverse(s) == [i \in 1..Len(s) |-> s[Len(s) + 1 - i]]

\* (state * LCG_MULTIPLIER + LCG_INCREMENT) & ((1 << 64) - 1)
_next_state(state) == Reverse(MulAddFrom(state, LCG_MULTIPLIER, LCG_INCREMENT, 0, 0))

\* state % n, for a small n
RECURSIVE ModFrom(_, _, _, _)
ModFrom(w, n, i, r) ==
    IF i > WordBytes THEN r ELSE ModFrom(w, n, i + 1, (r * ByteBase + w[i]) % n)

StateMod(state, n) == ModFrom(state, n, 1, 0)

\* ------------------------------------------------------------------- seeds
\* Seeds the callers pass: None, the empty text, blanks, and texts with and
\* without blanks around them.
SeedArgs == { NoneText, << >>, << " " >>, << " ", "a" >>, << "1" >> }
\* Values str(secrets.randbits(64)) may return.
FreshSeeds == { << "7" >> }

\* Mutant: a seed text that is given is replaced by a fixed one.
NormalizeSeedFixed(seed, fresh) ==
    IF seed = NoneText \/ Strip(seed) = << >> THEN fresh ELSE << "1" >>

\* _normalize_seed; fresh is what secrets.randbits(64) returns if it is called
_normalize_seed(seed, fresh) ==
    IF seed = NoneText THEN fresh
    ELSE IF Strip(seed) /= << >> THEN Strip(seed)
    ELSE fresh

\* whether _normalize_seed draws a fresh seed
DrawsSeed(seed) == seed = NoneText \/ Strip(seed) = << >>

\* hashlib.sha256(seed.encode("utf-8")).digest()[:8] for the seeds of the model
Digest8(seed) ==
    CASE seed = << "a" >> -> << 202, 151, 129, 18, 202, 27, 189, 202 >>
      [] seed = << "1" >> -> << 107, 134, 178, 115, 255, 52, 252, 225 >>
      [] seed = << "7" >> -> << 121, 2, 105, 155, 228, 44, 138, 142 >>
      [] seed = << "4", "2" >> -> << 115, 71, 92, 180, 10, 86, 142, 141 >>

_seed_to_state(seed) ==
    LET state == Digest8(seed)
    IN  IF state /= [i \in 1..WordBytes |-> 0] THEN state
        ELSE [i \in 1..WordBytes |-> IF i = WordBytes THEN 1 ELSE 0]

\* The seeds a shuffle can be called with.
UsedSeeds == FreshSeeds \cup {Strip(seed) : seed \in {s \in SeedArgs : ~DrawsSeed(s)}}

\* The states the generator takes within MaxSongs steps from a seed, and
\* _next_state on them, worked out once.
RECURSIVE Iterate(_, _)
Iterate(state, k) == IF k = 0 THEN state ELSE _next_state(Iterate(state, k - 1))

KnownStates == {Iterate(_seed_to_state(seed), k) : seed \in UsedSeeds, k \in 0..MaxSongs}
NextTable == [state \in KnownStates |-> _next_state(state)]
NextState(state) ==
    IF state \in KnownStates THEN NextTable[state] ELSE _next_state(state)

\* ----------------------------------------------------------------- shuffle
\* Mutant: the assignment loses the element at i.
SwapLossy(seq, i, j) == [seq EXCEPT ![i] = seq[j]]

\* shuffled[i], shuffled[j] = shuffled[j], shuffled[i]
Swap(seq, i, j) == [seq EXCEPT ![i] = seq[j], ![j] = seq[i]]

\* Mutant: the state comes from the seed the manager stored for the playlist.
StoredSeedState(seed) ==
    _seed_to_state(IF shuffle_seed = NoneText THEN seed ELSE shuffle_seed)

\* state = cls._seed_to_state(seed)
InitialState(seed) == _seed_to_state(seed)

\* The loop of _seeded_shuffle from index i (0-based) down to 1.
RECURSIVE ShuffleLoop(_, _, _)
ShuffleLoop(shuffled, state, i) ==
    IF i < 1 THEN shuffled
    ELSE LET next == NextState(state)
             j == StateMod(next, i + 1)
         IN  ShuffleLoop(Swap(shuffled, i + 1, j + 1), next, i - 1)

_seeded_shuffle(list, seed) ==
    IF Len(list) < 2 THEN list
    ELSE ShuffleLoop(list, InitialState(seed), Len(list) - 1)

\* Queries typed into the search box.
Queries == { << >>, << " ", "A" >> }

\* self.search_query in p.name.lower(), worked out once for every query
Matches == [p \in Paths |->
               {q \in {Lower(Strip(query)) : query \in Queries} : Contains(q, Lower(Name(p)))}]

\* Mutant: the file name is compared as it is written.
FilteredByCase(list, query) ==
    IF query = << >> THEN list
    ELSE SelectSeq(list, LAMBDA p : Contains(query, Name(p)))

\* _sync_filtered_playlist
Filtered(list, query) ==
    IF query = << >> THEN list
    ELSE SelectSeq(list, LAMBDA p : query \in Matches[p])

\* ------------------------------------------------------- persisted mappings
\* A mapping is a function from texts to values; a file is absent, or holds
\* the text of one mapping, whole or cut short.
EmptyMap == [k \in {} |-> 0]
NoFile == [exists |-> FALSE, whole |-> FALSE, data |-> EmptyMap]
FileOf(map) == [exists |-> TRUE, whole |-> TRUE, data |-> map]
\* a file whose write stopped part-way: its text is no JSON document
CutFile == [exists |-> TRUE, whole |-> FALSE, data |-> EmptyMap]

\* _load_stats, _load_saved_playlists: {} for an absent or unparsable file
Loaded(file) == IF file.exists /\ file.whole THEN file.data ELSE EmptyMap

\* ------------------------------------------------------------------- calls
\* The fields of the manager a call may change.
Fields ==
    [playlist |-> playlist, filtered_playlist |-> filtered_playlist, index |-> index,
     search_query |-> search_query, shuffle_seed |-> shuffle_seed,
     song_stats |-> song_stats, saved_playlists |-> saved_playlists,
     stats_file |-> stats_file, saved_file |-> saved_file]

NoFields ==
    [playlist |-> << >>, filtered_playlist |-> << >>, index |-> 0,
     search_query |-> << >>, shuffle_seed |-> NoneText,
     song_stats |-> EmptyMap, saved_playlists |-> EmptyMap,
     stats_file |-> NoFile, saved_file |-> NoFile]

\* no _seeded_shuffle call
NoShuffle == [seed |-> NoneText, input |-> << >>, result |-> << >>, arg |-> << >>]

NoPrev == [of |-> "none", seed |-> NoneText, index |-> 0]

\* no call that writes a file: the name and the key it was given, whether it
\* wrote, whether it raised
NoStore == [name |-> << >>, key |-> "", wrote |-> FALSE, raised |-> FALSE]

\* no call has returned and not been taken up by the caller yet
NoCall ==
    [of |-> "none", shuffle |-> FALSE, seed |-> NoneText, before |-> NoFields,
     value |-> NoneText, shuf |-> NoShuffle, prev |-> NoPrev, store |-> NoStore,
     target |-> << >>]

\* The call `of` with its arguments, the fields before it, what it returned
\* and the _seeded_shuffle call it made; target is the folder or the snapshot
\* name a loading call was given.
Called(of, shuffle, seed, value, shuf) ==
    [of |-> of, shuffle |-> shuffle, seed |-> seed, before |-> Fields,
     value |-> value, shuf |-> shuf, prev |-> prev_call, store |-> NoStore,
     target |-> << >>]

\* PlaylistManager.__init__, with the two files as they are on disk
PlaylistManagerInit(stats, saved) ==
    /\ playlist = << >>
    /\ filtered_playlist = << >>
    /\ index = 0
    /\ search_query = << >>
    /\ shuffle_seed = NoneText
    /\ stats_file = stats
    /\ saved_file = saved
    /\ song_stats = Loaded(stats)
    /\ saved_playlists = Loaded(saved)
    /\ good_stats = stats
    /\ good_saved = saved
    /\ call = NoCall
    /\ prev_call = NoPrev
    /\ first_shuf = << >>

\* The caller takes the result of the call and goes on.
Return ==
    /\ call.of /= "none"
    /\ call' = NoCall
    /\ prev_call' =
          IF call.of = "set_playlist" /\ call.shuffle
          THEN [of |-> "set_playlist", seed |-> call.seed, index |-> 0]
          ELSE IF call.of = "next_index"
          THEN [of |-> "next_index", seed |-> NoneText, index |-> call.before.index]
          ELSE NoPrev
    /\ UNCHANGED << songs, pmstate, pmstore, first_shuf, other_pm >>

\* ------------------------------------------------------- the playlist calls
\* Mutant: the shuffle works on the caller's list itself.
ArgAliased(list, result) == result

\* shuffled = songs.copy(): the caller's list is left as it was
ArgAfter(list, result) == list

\* The canonically sorted list of the run's tracks.
Canonical == Sorted(SelectSeq(songs, Supported))

\* The call _seeded_shuffle(list, seed) that returned result.
Shuffled(list, seed, result) ==
    [seed |-> seed, input |-> list, result |-> result, arg |-> ArgAfter(list, result)]

\* The run's first shuffle of the canonical list is remembered.
FirstShuffle(list, seed, result) ==
    first_shuf' = IF first_shuf = << >> /\ list = Canonical
                  THEN << seed, result >>
                  ELSE first_shuf

\* PlaylistManager._seeded_shuffle(list, seed), called on its own
SeededShuffle(list, seed) ==
    LET result == _seeded_shuffle(list, seed)
    IN  /\ call.of = "none"
        /\ call' = Called("_seeded_shuffle", TRUE, seed, result,
                          Shuffled(list, seed, result))
        /\ FirstShuffle(list, seed, result)
        /\ UNCHANGED << songs, pmstate, pmstore, prev_call, other_pm >>

\* set_playlist(songs, shuffle, seed)
SetPlaylist(shuffle, seed, fresh) ==
    LET cleaned == SelectSeq(songs, Supported)
        used_seed == IF shuffle THEN _normalize_seed(seed, fresh) ELSE NoneText
        base == Sorted(cleaned)
        new == IF shuffle THEN _seeded_shuffle(base, used_seed) ELSE cleaned
    IN  /\ call.of = "none"
        /\ IF shuffle
           THEN FirstShuffle(base, used_seed, new)
           ELSE UNCHANGED first_shuf
        /\ playlist' = new
        /\ filtered_playlist' = Filtered(new, search_query)
        /\ index' = 0
        /\ shuffle_seed' = used_seed
        /\ call' = Called("set_playlist", shuffle, seed, used_seed,
                          IF shuffle THEN Shuffled(base, used_seed, new) ELSE NoShuffle)
        /\ UNCHANGED << songs, search_query, pmstore, prev_call, other_pm >>

\* Mutant: the current track is not looked up.
IndexZero(list, x) == 0

\* list.index(x), 0-based
IndexOf(list, x) ==
    (CHOOSE i \in 1..Len(list) : list[i] = x /\ \A k \in 1..(i - 1) : list[k] /= x) - 1

\* reshuffle(seed) on an empty playlist
ReshuffleEmpty(seed) ==
    /\ call.of = "none"
    /\ playlist = << >>
    /\ call' = Called("reshuffle", TRUE, seed, NoneText, NoShuffle)
    /\ UNCHANGED << songs, pmstate, pmstore, pmhist, other_pm >>

\* reshuffle(seed)
Reshuffle(seed, fresh) ==
    LET used_seed == _normalize_seed(seed, fresh)
        base == Sorted(playlist)
        new == _seeded_shuffle(base, used_seed)
    IN  /\ call.of = "none"
        /\ playlist /= << >>
        /\ FirstShuffle(base, used_seed, new)
        /\ playlist' = new
        /\ shuffle_seed' = used_seed
        /\ index' = IF 0 <= index /\ index < Len(playlist)
                       /\ \E i \in 1..Len(new) : new[i] = playlist[index + 1]
                    THEN IndexOf(new, playlist[index + 1])
                    ELSE 0
        /\ filtered_playlist' = Filtered(new, search_query)
        /\ call' = Called("reshuffle", TRUE, seed, used_seed,
                          Shuffled(base, used_seed, new))
        /\ UNCHANGED << songs, search_query, pmstore, prev_call, other_pm >>

\* apply_search(query)
ApplySearch(query) ==
    /\ call.of = "none"
    /\ search_query' = Lower(Strip(query))
    /\ filtered_playlist' = Filtered(playlist, Lower(Strip(query)))
    /\ call' = Called("apply_search", FALSE, NoneText,
                      Filtered(playlist, Lower(Strip(query))), NoShuffle)
    /\ UNCHANGED << songs, playlist, index, shuffle_seed, pmstore, pmhist, other_pm >>

\* Mutant: next_index stops at the last track.
NextOfClamped(i, n) == IF i + 1 < n THEN i + 1 ELSE i

\* (self.index + 1) % len(self.playlist)
NextOf(i, n) == (i + 1) % n

\* Mutant: prev_index without the modulo.
PrevOfPlain(i, n) == i - 1

\* (self.index - 1) % len(self.playlist)
PrevOf(i, n) == (i - 1) % n

\* next_index()
NextIndex ==
    /\ call.of = "none"
    /\ index' = IF playlist = << >> THEN index ELSE NextOf(index, Len(playlist))
    /\ call' = Called("next_index", FALSE, NoneText,
                      IF playlist = << >> THEN 0 ELSE NextOf(index, Len(playlist)),
                      NoShuffle)
    /\ UNCHANGED << songs, playlist, filtered_playlist, search_query, shuffle_seed,
                    pmstore, pmhist, other_pm >>

\* prev_index()
PrevIndex ==
    /\ call.of = "none"
    /\ index' = IF playlist = << >> THEN index ELSE PrevOf(index, Len(playlist))
    /\ call' = Called("prev_index", FALSE, NoneText,
                      IF playlist = << >> THEN 0 ELSE PrevOf(index, Len(playlist)),
                      NoShuffle)
    /\ UNCHANGED << songs, playlist, filtered_playlist, search_query, shuffle_seed,
                    pmstore, pmhist, other_pm >>

\* What secrets.randbits may return where _normalize_seed(seed) calls it; one
\* value where it does not.
FreshFor(seed) == IF DrawsSeed(seed) THEN FreshSeeds ELSE {NoneText}

PlaylistNext ==
    \/ \E seed \in UsedSeeds : SeededShuffle(songs, seed)
    \/ SetPlaylist(FALSE, NoneText, NoneText)
    \/ \E seed \in SeedArgs : \E fresh \in FreshFor(seed) : SetPlaylist(TRUE, seed, fresh)
    \/ \E seed \in SeedArgs : ReshuffleEmpty(seed)
    \/ \E seed \in SeedArgs : \E fresh \in FreshFor(seed) : Reshuffle(seed, fresh)
    \/ \E query \in Queries : ApplySearch(query)
    \/ NextIndex
    \/ PrevIndex
    \/ Return

\* ------------------------------------------- statistics and saved playlists
\* Number of calls that write a file, in a run.
MaxStoreOps == 3

\* File names update_stat is called with, and the keys: the three counters
\* and one that is none of them.
StatNames == { << "a", ".", "m", "p", "3" >>, << "b", ".", "M", "P", "3" >> }
StatKeys == { "played", "started", "skipped", "liked" }
ZeroEntry == [played |-> 0, started |-> 0, skipped |-> 0]

\* Names save_current_playlist and delete_saved_playlist are called with.
PlaylistNames == { << " " >>, << "p" >>, << " ", "p", " ", " ", "q", " " >> }

\* m with m[k] = v
MapPut(m, k, v) == [x \in DOMAIN m \cup {k} |-> IF x = k THEN v ELSE m[x]]
\* m without k
MapDel(m, k) == [x \in DOMAIN m \ {k} |-> m[x]]

\* str.split() and " ".join(...): the words of s with one blank between them
RECURSIVE Collapse(_)
Collapse(s) ==
    IF Len(s) < 2 THEN s
    ELSE IF s[1] = " " /\ s[2] = " " THEN Collapse(Tail(s))
    ELSE << s[1] >> \o Collapse(Tail(s))

\* _normalize_playlist_name
_normalize_playlist_name(name) == Collapse(Strip(name))

\* What Path.write_text does to a file: it opens the file, which empties it,
\* writes the text and closes it; the open or the write may raise OSError.
WriteOutcomes == { "written", "open fails", "write fails" }

\* path.write_text(json.dumps(map, indent=2), encoding="utf-8")
WriteText(file, map, outcome) ==
    CASE outcome = "written" -> FileOf(map)
      [] outcome = "open fails" -> file
      [] outcome = "write fails" -> CutFile

\* the file as the last successful write left it
LastGood(good, map, outcome) == IF outcome = "written" THEN FileOf(map) ELSE good

\* Mutant: the increment goes to the played counter whatever the key.
BumpPlayed(entry, key) == [entry EXCEPT !["played"] = @ + 1]

\* entry[key] += 1
Bump(entry, key) == [entry EXCEPT ![key] = @ + 1]

\* self.song_stats.setdefault(song_name, {"played": 0, "started": 0, "skipped": 0})
SetDefault(stats, name) ==
    IF name \in DOMAIN stats THEN stats ELSE MapPut(stats, name, ZeroEntry)

\* update_stat(song_name, key) with a key the entry has: the increment and
\* save_stats()
UpdateStat(name, key, outcome) ==
    LET created == SetDefault(song_stats, name)
        new == MapPut(created, name, Bump(created[name], key))
    IN  /\ call.of = "none"
        /\ store_ops > 0
        /\ key \in DOMAIN created[name]
        /\ store_ops' = store_ops - 1
        /\ song_stats' = new
        /\ stats_file' = WriteText(stats_file, new, outcome)
        /\ good_stats' = LastGood(good_stats, new, outcome)
        /\ call' = [Called("update_stat", FALSE, NoneText, NoneText, NoShuffle)
                       EXCEPT !.store = [name |-> name, key |-> key, wrote |-> TRUE,
                                         raised |-> outcome /= "written"]]
        /\ UNCHANGED << songs, pmstate, saved_playlists, saved_file, good_saved,
                        pmhist, other_pm >>

\* update_stat(song_name, key) with a key the entry does not have
UpdateStatIgnored(name, key) ==
    LET created == SetDefault(song_stats, name)
    IN  /\ call.of = "none"
        /\ store_ops > 0
        /\ key \notin DOMAIN created[name]
        /\ store_ops' = store_ops - 1
        /\ song_stats' = created
        /\ call' = [Called("update_stat", FALSE, NoneText, NoneText, NoShuffle)
                       EXCEPT !.store = [name |-> name, key |-> key, wrote |-> FALSE,
                                         raised |-> FALSE]]
        /\ UNCHANGED << songs, pmstate, saved_playlists, stats_file, saved_file,
                        good_stats, good_saved, pmhist, other_pm >>

\* save_current_playlist(name) returns False: no name or no track
SaveRefused(name) ==
    /\ call.of = "none"
    /\ store_ops > 0
    /\ _normalize_playlist_name(name) = << >> \/ playlist = << >>
    /\ store_ops' = store_ops - 1
    /\ call' = [Called("save_current_playlist", FALSE, NoneText, FALSE, NoShuffle)
                   EXCEPT !.store = [name |-> name, key |-> "", wrote |-> FALSE,
                                     raised |-> FALSE]]
    /\ UNCHANGED << songs, pmstate, song_stats, saved_playlists, stats_file,
                    saved_file, good_stats, good_saved, pmhist, other_pm >>

\* save_current_playlist(name)
SaveCurrentPlaylist(name, outcome) ==
    LET normalized == _normalize_playlist_name(name)
        new == MapPut(saved_playlists, normalized, playlist)
    IN  /\ call.of = "none"
        /\ store_ops > 0
        /\ normalized /= << >>
        /\ playlist /= << >>
        /\ store_ops' = store_ops - 1
        /\ saved_playlists' = new
        /\ saved_file' = WriteText(saved_file, new, outcome)
        /\ good_saved' = LastGood(good_saved, new, outcome)
        /\ call' = [Called("save_current_playlist", FALSE, NoneText, TRUE, NoShuffle)
                       EXCEPT !.store = [name |-> name, key |-> "", wrote |-> TRUE,
                                         raised |-> outcome /= "written"]]
        /\ UNCHANGED << songs, pmstate, song_stats, stats_file, good_stats,
                        pmhist, other_pm >>

\* delete_saved_playlist(name) returns False: no such snapshot
DeleteRefused(name) ==
    /\ call.of = "none"
    /\ store_ops > 0
    /\ _normalize_playlist_name(name) \notin DOMAIN saved_playlists
    /\ store_ops' = store_ops - 1
    /\ call' = [Called("delete_saved_playlist", FALSE, NoneText, FALSE, NoShuffle)
                   EXCEPT !.store = [name |-> name, key |-> "", wrote |-> FALSE,
                                     raised |-> FALSE]]
    /\ UNCHANGED << songs, pmstate, song_stats, saved_playlists, stats_file,
                    saved_file, good_stats, good_saved, pmhist, other_pm >>

\* delete_saved_playlist(name)
DeleteSavedPlaylist(name, outcome) ==
    LET normalized == _normalize_playlist_name(name)
        new == MapDel(saved_playlists, normalized)
    IN  /\ call.of = "none"
        /\ store_ops > 0
        /\ normalized \in DOMAIN saved_playlists
        /\ store_ops' = store_ops - 1
        /\ saved_playlists' = new
        /\ saved_file' = WriteText(saved_file, new, outcome)
        /\ good_saved' = LastGood(good_saved, new, outcome)
        /\ call' = [Called("delete_saved_playlist", FALSE, NoneText, TRUE, NoShuffle)
                       EXCEPT !.store = [name |-> name, key |-> "", wrote |-> TRUE,
                                         raised |-> outcome /= "written"]]
        /\ UNCHANGED << songs, pmstate, song_stats, stats_file, good_stats,
                        pmhist, other_pm >>

StoreNext ==
    \/ SetPlaylist(FALSE, NoneText, NoneText)
    \/ \E name \in StatNames, key \in StatKeys, outcome \in WriteOutcomes :
          UpdateStat(name, key, outcome)
    \/ \E name \in StatNames, key \in StatKeys : UpdateStatIgnored(name, key)
    \/ \E name \in PlaylistNames : SaveRefused(name)
    \/ \E name \in PlaylistNames, outcome \in WriteOutcomes :
          SaveCurrentPlaylist(name, outcome)
    \/ \E name \in PlaylistNames : DeleteRefused(name)
    \/ \E name \in PlaylistNames, outcome \in WriteOutcomes :
          DeleteSavedPlaylist(name, outcome)
    \/ Return
\* --------------------------------------- load_folder, load_saved_playlist
\* The folder the tracks are in, a folder that does not exist, and a path
\* that is a file.
Folder == << "/", "m" >>
NoFolder == << "/", "x" >>
FolderArgs == { Folder, NoFolder, TrackB }
\* Mutant: a path that exists passes for a folder.
IsDirOrFile(path) == path \in {Folder, TrackB}

\* folder_path.exists() and folder_path.is_dir()
IsDir(path) == path = Folder

\* folder_path.iterdir() or rglob("*"): the files of the folder, in an order
\* the file system chooses
Listings ==
    {list \in [1..Cardinality(OnDisk) -> OnDisk] :
        \A i, j \in 1..Len(list) : list[i] = list[j] => i = j}

\* load_folder(folder_path, shuffle, seed) on a path that is no folder
LoadFolderRefused(folder_path, shuffle, seed) ==
    /\ call.of = "none"
    /\ ~IsDir(folder_path)
    /\ call' = [Called("load_folder", shuffle, seed, NoneText, NoShuffle)
                   EXCEPT !.target = folder_path]
    /\ UNCHANGED << songs, pmstate, pmstore, pmhist, other_pm >>

\* load_folder(folder_path, shuffle, seed); listing is what the scan yields
LoadFolder(folder_path, listing, shuffle, seed, fresh) ==
    LET found == Sorted(SelectSeq(listing, LAMBDA p : Lower(Suffix(p)) \in SUPPORTED_EXTENSIONS))
        used_seed == IF shuffle THEN _normalize_seed(seed, fresh) ELSE NoneText
        new == IF shuffle THEN _seeded_shuffle(found, used_seed) ELSE found
    IN  /\ call.of = "none"
        /\ IsDir(folder_path)
        /\ IF shuffle
           THEN FirstShuffle(found, used_seed, new)
           ELSE UNCHANGED first_shuf
        /\ playlist' = new
        /\ filtered_playlist' = Filtered(new, search_query)
        /\ index' = 0
        /\ shuffle_seed' = used_seed
        /\ call' = [Called("load_folder", shuffle, seed, used_seed,
                           IF shuffle THEN Shuffled(found, used_seed, new) ELSE NoShuffle)
                       EXCEPT !.target = folder_path]
        /\ UNCHANGED << songs, search_query, pmstore, prev_call, other_pm >>

\* load_saved_playlist(name, shuffle, seed): set_playlist on the paths of the
\* snapshot, on no path when there is no such snapshot
LoadSavedPlaylist(name, shuffle, seed, fresh) ==
    LET normalized == _normalize_playlist_name(name)
        paths == IF normalized \in DOMAIN saved_playlists
                 THEN saved_playlists[normalized] ELSE << >>
        cleaned == SelectSeq(paths, Supported)
        used_seed == IF shuffle THEN _normalize_seed(seed, fresh) ELSE NoneText
        base == Sorted(cleaned)
        new == IF shuffle THEN _seeded_shuffle(base, used_seed) ELSE cleaned
    IN  /\ call.of = "none"
        /\ IF shuffle
           THEN FirstShuffle(base, used_seed, new)
           ELSE UNCHANGED first_shuf
        /\ playlist' = new
        /\ filtered_playlist' = Filtered(new, search_query)
        /\ index' = 0
        /\ shuffle_seed' = used_seed
        /\ call' = [Called("load_saved_playlist", shuffle, seed, used_seed,
                           IF shuffle THEN Shuffled(base, used_seed, new) ELSE NoShuffle)
                       EXCEPT !.target = name]
        /\ UNCHANGED << songs, search_query, pmstore, prev_call, other_pm >>

\* The seeds load_folder and load_saved_playlist are called with.
LoadSeeds == { NoneText, << "1" >> }

\* Every call that loads, orders, filters or steps through the playlist.
ViewNext ==
    \/ SetPlaylist(FALSE, NoneText, NoneText)
    \/ \E seed \in SeedArgs : \E fresh \in FreshFor(seed) : SetPlaylist(TRUE, seed, fresh)
    \/ \E folder_path \in FolderArgs, shuffle \in BOOLEAN, seed \in LoadSeeds :
          LoadFolderRefused(folder_path, shuffle, seed)
    \/ \E folder_path \in FolderArgs, listing \in Listings, shuffle \in BOOLEAN,
          seed \in LoadSeeds :
          \E fresh \in FreshFor(seed) : LoadFolder(folder_path, listing, shuffle, seed, fresh)
    \/ \E name \in PlaylistNames, shuffle \in BOOLEAN, seed \in LoadSeeds :
          \E fresh \in FreshFor(seed) : LoadSavedPlaylist(name, shuffle, seed, fresh)
    \/ \E seed \in SeedArgs : ReshuffleEmpty(seed)
    \/ \E seed \in SeedArgs : \E fresh \in FreshFor(seed) : Reshuffle(seed, fresh)
    \/ \E query \in Queries : ApplySearch(query)
    \/ NextIndex
    \/ PrevIndex
    \/ Return

\* ======================================================== metadata_utils
\* read_audio_metadata is a function of the path, of what running ffprobe
\* gives and of the .info.json files beside the track.  Texts are sequences
\* of characters as above; a JSON value that is absent is NoneText.
UnknownArtist == << "U", "n", "k", "n", "o", "w", "n", " ", "A", "r", "t", "i", "s", "t" >>
UnknownAlbum == << "U", "n", "k", "n", "o", "w", "n", " ", "A", "l", "b", "u", "m" >>
Nul == "NUL"
Digits == << "0", "1", "2", "3", "4", "5", "6", "7", "8", "9" >>
IsDigit(c) == \E d \in 1..Len(Digits) : Digits[d] = c
DigitValue(c) == (CHOOSE d \in 1..Len(Digits) : Digits[d] = c) - 1

\* a or b, for texts
Or(a, b) == IF a /= << >> THEN a ELSE b
\* a or b, for JSON values that may be absent
OrAbsent(a, b) == IF a /= NoneText /\ a /= << >> THEN a ELSE b
\* str(value or "")
TextOf(v) == IF v = NoneText THEN << >> ELSE v

\* " ".join(value.replace("\x00", " ").split()).strip()
_clean_text(value) ==
    Collapse(Strip([i \in 1..Len(value) |-> IF value[i] = Nul THEN " " ELSE value[i]]))

\* the first position at which sep occurs in s, 0 if it does not
FindText(s, sep) ==
    LET at == {i \in 1..(Len(s) - Len(sep) + 1) : SubSeq(s, i, i + Len(sep) - 1) = sep}
    IN  IF at = {} THEN 0 ELSE CHOOSE i \in at : \A k \in at : i <= k

\* the number of leading characters of s that satisfy Test
RECURSIVE Run(_, _)
Run(s, set) == IF s /= << >> /\ Head(s) \in set THEN 1 + Run(Tail(s), set) ELSE 0

Drop(s, n) == SubSeq(s, n + 1, Len(s))
DigitSet == {Digits[d] : d \in 1..Len(Digits)}

\* _LEADING_INDEX.sub("", stem): blanks, one to three digits, blanks, one of
\* - _ . ) and blanks are cut from the front
StripLeadingIndex(stem) ==
    LET s1 == Drop(stem, Run(stem, {" "}))
        digits == Run(s1, DigitSet)
        s2 == Drop(s1, digits)
        s3 == Drop(s2, Run(s2, {" "}))
    IN  IF digits >= 1 /\ digits <= 3 /\ s3 /= << >> /\ Head(s3) \in {"-", "_", ".", ")"}
        THEN Drop(Tail(s3), Run(Tail(s3), {" "}))
        ELSE stem

Separators == << << " ", "-", " " >>, << " ", "EM DASH", " " >>, << " ", "EN DASH", " " >> >>

\* left, right = text.split(sep, 1), cleaned
SplitClean(text, sep) ==
    LET at == FindText(text, sep)
    IN  [found |-> at > 0,
         left |-> _clean_text(SubSeq(text, 1, at - 1)),
         right |-> _clean_text(Drop(text, at + Len(sep) - 1))]

\* the loop over the separators of _parse_filename_title_artist, from the
\* k-th separator on
RECURSIVE ParseFrom(_, _, _)
ParseFrom(path_stem, stem, k) ==
    IF k > Len(Separators)
    THEN [artist |-> << >>, title |-> Or(_clean_text(stem), path_stem)]
    ELSE LET parts == SplitClean(stem, Separators[k])
         IN  IF parts.found /\ parts.left /= << >> /\ parts.right /= << >>
             THEN [artist |-> parts.left, title |-> parts.right]
             ELSE ParseFrom(path_stem, stem, k + 1)

_parse_filename_title_artist(path_stem) ==
    LET stem == Strip([i \in 1..Len(StripLeadingIndex(path_stem)) |->
                          IF StripLeadingIndex(path_stem)[i] = "_"
                          THEN " " ELSE StripLeadingIndex(path_stem)[i]])
    IN  ParseFrom(path_stem, stem, 1)

\* the first four consecutive digits of value from position i on
RECURSIVE YearFrom(_, _)
YearFrom(value, i) ==
    IF i + 3 > Len(value) THEN << >>
    ELSE IF \A k \in i..(i + 3) : IsDigit(value[k]) THEN SubSeq(value, i, i + 3)
    ELSE YearFrom(value, i + 1)

_parse_year(value) ==
    LET clean == _clean_text(value)
    IN  IF clean = << >> THEN << >>
        ELSE IF Len(clean) >= 4 /\ \A k \in 1..4 : IsDigit(clean[k]) THEN SubSeq(clean, 1, 4)
        ELSE YearFrom(value, 1)

\* ------------------------------------------------------------- numbers
\* A JSON value where a number is expected: absent, a text that is no
\* number, a number (whole, in the model), or one too large for a float, which
\* float() reads as infinity.
Absent == [kind |-> "absent", n |-> 0]
NotANumber == [kind |-> "text", n |-> 0]
Number(n) == [kind |-> "number", n |-> n]
Infinite == [kind |-> "infinite", n |-> 0]

\* the decimal number a text of digits spells
RECURSIVE ParseInt(_)
ParseInt(text) ==
    IF text = << >> THEN 0
    ELSE ParseInt(SubSeq(text, 1, Len(text) - 1)) * Len(Digits) + DigitValue(text[Len(text)])

\* texts float() reads as infinity
InfiniteTexts == { << "i", "n", "f" >>, << "1", "e", "4", "0", "0" >> }

\* what float() makes of a text
TextNumber(text) ==
    IF text /= << >> /\ \A i \in 1..Len(text) : IsDigit(text[i]) THEN Number(ParseInt(text))
    ELSE IF text \in InfiniteTexts THEN Infinite
    ELSE NotANumber

\* _to_float: TypeError and ValueError give 0.0
_to_float(value) ==
    CASE value.kind = "number" -> [inf |-> FALSE, n |-> value.n]
      [] value.kind = "infinite" -> [inf |-> TRUE, n |-> 0]
      [] OTHER -> [inf |-> FALSE, n |-> 0]

Positive(f) == f.inf \/ f.n > 0
\* max(0.0, f)
NonNegative(f) == IF Positive(f) THEN f ELSE [inf |-> FALSE, n |-> 0]

\* _to_kbps: int(float(value)) raises OverflowError for infinity, which the
\* except clause does not name
_to_kbps(value) ==
    CASE value.kind = "number" -> [raised |-> FALSE, n |-> Max(0, value.n \div 1000)]
      [] value.kind = "infinite" -> [raised |-> TRUE, n |-> 0]
      [] OTHER -> [raised |-> FALSE, n |-> 0]

\* ----------------------------------------------------------------- tags
\* A tag mapping goes from normalised tag names (_norm_key) to texts.
NoTags == [k \in {} |-> << >>]
\* tags.update(more)
Update(tags, more) ==
    [k \in DOMAIN tags \cup DOMAIN more |-> IF k \in DOMAIN more THEN more[k] ELSE tags[k]]

\* _first_tag, from the k-th alias on
RECURSIVE FirstTagFrom(_, _, _)
FirstTagFrom(tags, aliases, k) ==
    IF k > Len(aliases) THEN << >>
    ELSE IF aliases[k] \in DOMAIN tags /\ _clean_text(tags[aliases[k]]) /= << >>
         THEN _clean_text(tags[aliases[k]])
         ELSE FirstTagFrom(tags, aliases, k + 1)

_first_tag(tags, aliases) == FirstTagFrom(tags, aliases, 1)

TitleAliases == << "title", "track", "song", "nam", "nam" >>
ArtistAliases ==
    << "artist", "albumartist", "albumartist", "aart", "art", "performer", "composer" >>
AlbumAliases == << "album", "alb" >>
DateAliases == << "date", "year", "creationtime", "originaldate", "releasedate" >>
BitrateAliases == << "bpm", "bps", "bitrate" >>

\* --------------------------------------------------------------- sidecar
\* A .info.json candidate: it cannot be read or parsed, it holds a JSON value
\* that is no object, or it holds an object.
NoValues == [k \in {} |-> NoneText]
Unreadable == [state |-> "unreadable", data |-> NoValues, categories |-> << >>]
NotAnObject == [state |-> "not an object", data |-> NoValues, categories |-> << >>]
Object(data, categories) == [state |-> "object", data |-> data, categories |-> categories]

\* _read_ytdlp_info_metadata: the first candidate that holds an object, else {}
RECURSIVE FirstObject(_)
FirstObject(candidates) ==
    IF candidates = << >> THEN Object(NoValues, << >>)
    ELSE IF Head(candidates).state = "object" THEN Head(candidates)
    ELSE FirstObject(Tail(candidates))

\* ytdlp_data.get(key)
Get(object, key) == IF key \in DOMAIN object.data THEN object.data[key] ELSE NoneText

\* the first of the values whose text is not blank, cleaned
RECURSIVE FirstClean(_)
FirstClean(values) ==
    IF values = << >> THEN << >>
    ELSE IF _clean_text(TextOf(Head(values))) /= << >> THEN _clean_text(TextOf(Head(values)))
    ELSE FirstClean(Tail(values))

\* Mutant: the sidecar is read and not used.
MergeKeepsBase(base, ytdlp_data) == base

_merge_ytdlp_metadata(base, ytdlp_data) ==
    IF DOMAIN ytdlp_data.data = {} /\ ytdlp_data.categories = << >> THEN base
    ELSE
    LET title == Or(_clean_text(TextOf(OrAbsent(Get(ytdlp_data, "track"),
                                                Get(ytdlp_data, "title")))),
                    base.title)
        ytdlp_artist == FirstClean(<< Get(ytdlp_data, "artist"),
                                      Get(ytdlp_data, "album_artist"),
                                      Get(ytdlp_data, "uploader"),
                                      Get(ytdlp_data, "channel"),
                                      Get(ytdlp_data, "creator") >>)
        artist == IF (base.artist = << >> \/ base.artist = UnknownArtist)
                     /\ ytdlp_artist /= << >>
                  THEN ytdlp_artist ELSE base.artist
        album == Or(_clean_text(TextOf(OrAbsent(Get(ytdlp_data, "album"),
                                                Get(ytdlp_data, "playlist_title")))),
                    base.album)
        year == Or(base.year,
                   _parse_year(TextOf(OrAbsent(Get(ytdlp_data, "release_date"),
                                       OrAbsent(Get(ytdlp_data, "upload_date"),
                                                Get(ytdlp_data, "timestamp"))))))
        genre1 == Or(base.genre, FirstClean(ytdlp_data.categories))
        genre == Or(genre1, _clean_text(TextOf(Get(ytdlp_data, "genre"))))
        duration == IF Positive(base.duration_seconds)
                    THEN base.duration_seconds
                    ELSE _to_float(IF Get(ytdlp_data, "duration") = NoneText
                                   THEN Absent
                                   ELSE TextNumber(Get(ytdlp_data, "duration")))
    IN  [title |-> Or(title, base.title),
         artist |-> Or(artist, base.artist),
         album |-> Or(album, base.album),
         year |-> year,
         genre |-> genre,
         duration_seconds |-> NonNegative(duration),
         bitrate_kbps |-> base.bitrate_kbps]

\* ----------------------------------------------------------------- probe
\* What running ffprobe gives: the tool is missing, the run raises (timeout),
\* it exits non-zero, prints nothing, prints no JSON, or prints a JSON value,
\* of which the format entry and the first audio stream are read.
ProbeFailures ==
    {"tool missing", "run raises", "non-zero exit", "empty output", "malformed JSON"}
NoPart == [present |-> FALSE, duration |-> Absent, bit_rate |-> Absent, tags |-> NoTags]
Part(duration, bit_rate, tags) ==
    [present |-> TRUE, duration |-> duration, bit_rate |-> bit_rate, tags |-> tags]
FailedProbe(why) == [outcome |-> why, format |-> NoPart, audio |-> NoPart]
ProbeJson(format, audio) == [outcome |-> "json", format |-> format, audio |-> audio]

\* the bitrate_kbps of read_audio_metadata: the audio stream's, else the
\* format's, else a tag's; any of the conversions it makes may raise
Bitrate(format, audio, tags) ==
    LET stream_kbps == _to_kbps(audio.bit_rate)
        format_kbps == _to_kbps(format.bit_rate)
        tag_kbps == _to_kbps(IF _first_tag(tags, BitrateAliases) = << >>
                        THEN NotANumber
                        ELSE TextNumber(_first_tag(tags, BitrateAliases)))
    IN  IF stream_kbps.raised \/ stream_kbps.n > 0 THEN stream_kbps
        ELSE IF format_kbps.raised \/ format_kbps.n > 0 THEN format_kbps
        ELSE tag_kbps

\* the AudioMetadata built from the filename alone
Fallback(path_stem) ==
    [title |-> Or(_parse_filename_title_artist(path_stem).title, path_stem),
     artist |-> Or(_parse_filename_title_artist(path_stem).artist, UnknownArtist),
     album |-> UnknownAlbum,
     year |-> << >>,
     genre |-> << >>,
     duration_seconds |-> [inf |-> FALSE, n |-> 0],
     bitrate_kbps |-> 0]

\* the AudioMetadata built from the parsed output of ffprobe
Resolved(fallback, format, audio) ==
    LET tags == Update(format.tags, audio.tags)
        title0 == Or(_first_tag(tags, TitleAliases), fallback.title)
        artist0 == Or(_first_tag(tags, ArtistAliases), fallback.artist)
        album == Or(_first_tag(tags, AlbumAliases), fallback.album)
        split == SplitClean(title0, Separators[1])
        splits == /\ (artist0 = UnknownArtist \/ artist0 = << >>)
                  /\ split.found /\ split.left /= << >> /\ split.right /= << >>
        title == IF splits THEN split.right ELSE title0
        artist == IF splits THEN split.left ELSE artist0
        duration == IF Positive(_to_float(format.duration))
                    THEN _to_float(format.duration)
                    ELSE _to_float(audio.duration)
    IN  [title |-> Or(_clean_text(title), fallback.title),
         artist |-> Or(_clean_text(artist), fallback.artist),
         album |-> Or(_clean_text(album), fallback.album),
         year |-> _parse_year(_first_tag(tags, DateAliases)),
         genre |-> _clean_text(_first_tag(tags, << "genre" >>)),
         duration_seconds |-> NonNegative(duration),
         bitrate_kbps |-> Bitrate(format, audio, tags).n]

NoRecord ==
    [title |-> << >>, artist |-> << >>, album |-> << >>, year |-> << >>, genre |-> << >>,
     duration_seconds |-> [inf |-> FALSE, n |-> 0], bitrate_kbps |-> 0]

\* read_audio_metadata(path): the record it returns, or that it raises
read_audio_metadata(path_stem, result, candidates) ==
    LET fallback == Fallback(path_stem)
        ytdlp_data == FirstObject(candidates)
    IN  IF result.outcome \in ProbeFailures
        THEN [state |-> "returned", record |-> _merge_ytdlp_metadata(fallback, ytdlp_data)]
        ELSE IF Bitrate(result.format, result.audio,
                        Update(result.format.tags, result.audio.tags)).raised
        THEN [state |-> "raised", record |-> NoRecord]
        ELSE [state |-> "returned",
              record |-> _merge_ytdlp_metadata(
                             Resolved(fallback, result.format, result.audio), ytdlp_data)]

\* the caller's call of read_audio_metadata(path) returns
ReadAudioMetadata ==
    /\ metadata.state = "none"
    /\ read_audio_metadata(meta_path, probe, sidecars).state = "returned"
    /\ metadata' = read_audio_metadata(meta_path, probe, sidecars)
    /\ UNCHANGED << meta_path, probe, sidecars, other_md >>

\* the caller's call of read_audio_metadata(path) raises
ReadAudioMetadataRaises ==
    /\ metadata.state = "none"
    /\ read_audio_metadata(meta_path, probe, sidecars).state = "raised"
    /\ metadata' = read_audio_metadata(meta_path, probe, sidecars)
    /\ UNCHANGED << meta_path, probe, sidecars, other_md >>

MetaNext ==
    \/ ReadAudioMetadata
    \/ ReadAudioMetadataRaises

\* no call of read_audio_metadata is under way
MetaIdle ==
    /\ meta_path = << >>
    /\ probe = FailedProbe("tool missing")
    /\ sidecars = << >>
    /\ metadata = [state |-> "none", record |-> NoRecord]

\* ================================================================ _scale_pcm
\* A chunk is a sequence of bytes (0..255).  The volume is a float in the
\* code; the model has the volumes that are whole multiples of 1/VolumeUnit,
\* for which the product with a sample is exact in the code's arithmetic.
VolumeUnit == 1024
\* Longest chunk, in samples of SampleWidth bytes.
MaxSamples == 2
ByteValues == {0, 1, 127, 128, 255}
Volumes == {0, 1, 256, 512, 1023, VolumeUnit}
Chunks == UNION {[1..(SampleWidth * k) -> ByteValues] : k \in 0..MaxSamples}

\* 1 << n
RECURSIVE Pow2(_)
Pow2(n) == IF n = 0 THEN 1 ELSE 2 * Pow2(n - 1)

\* int.from_bytes(bytes, byteorder="little", signed=False)
RECURSIVE Unsigned(_)
Unsigned(bytes) ==
    IF bytes = << >> THEN 0 ELSE Head(bytes) + ByteBase * Unsigned(Tail(bytes))

\* int.from_bytes(bytes, byteorder="little", signed=True)
FromBytes(bytes) ==
    IF bytes /= << >> /\ Unsigned(bytes) >= Pow2(8 * Len(bytes) - 1)
    THEN Unsigned(bytes) - Pow2(8 * Len(bytes))
    ELSE Unsigned(bytes)

\* value.to_bytes(n, byteorder="little", signed=True), for a value in range
RECURSIVE ToBytes(_, _)
ToBytes(n, value) ==
    IF n = 0 THEN << >>
    ELSE << value % ByteBase >> \o ToBytes(n - 1, (value - (value % ByteBase)) \div ByteBase)

\* Mutant: the product is rounded down.
Floored(n, d) == n \div d

\* int(n / d): the fraction is cut off, towards zero
Truncated(n, d) == IF n >= 0 THEN n \div d ELSE -((-n) \div d)

\* the clamp of _scale_pcm to min_v..max_v
Clamped(value, min_v, max_v) ==
    IF value > max_v THEN max_v ELSE IF value < min_v THEN min_v ELSE value

\* the loop of _scale_pcm over the samples of `step` bytes, from byte i on
RECURSIVE ScaleFrom(_, _, _, _)
ScaleFrom(chunk, step, volume, i) ==
    IF i >= Len(chunk) THEN << >>
    ELSE LET s == FromBytes(SubSeq(chunk, i + 1, Min(i + step, Len(chunk))))
             scaled == Clamped(Truncated(s * volume, VolumeUnit),
                               -Pow2(8 * step - 1), Pow2(8 * step - 1) - 1)
         IN  ToBytes(step, scaled) \o ScaleFrom(chunk, step, volume, i + step)

_scale_pcm(chunk, sample_width, volume) ==
    IF volume * 1000 >= 999 * VolumeUnit THEN chunk
    ELSE IF volume * 1000 <= VolumeUnit THEN [i \in 1..Len(chunk) |-> 0]
    ELSE IF sample_width \notin {1, 2, 3, 4} THEN chunk
    ELSE IF sample_width = 1
    THEN [i \in 1..Len(chunk) |->
             Clamped(Truncated((chunk[i] - 128) * volume, VolumeUnit), -128, 127) + 128]
    ELSE ScaleFrom(chunk, sample_width, volume, 0)

\* the playback loop's call _scale_pcm(chunk, self._sample_width, self._volume)
ScalePcm ==
    /\ pcm_out = NoneText
    /\ pcm_out' = _scale_pcm(pcm_chunk, SampleWidth, pcm_volume)
    /\ UNCHANGED << pcm_chunk, pcm_volume, other_pcm >>

ScaleNext == ScalePcm

\* no call of _scale_pcm is under way
ScaleIdle ==
    /\ pcm_chunk = << >>
    /\ pcm_volume = VolumeUnit
    /\ pcm_out = NoneText

\* ================================================================ MainWindow
\* The UI thread runs one handler at a time; a signal emitted in another
\* thread is queued for it.  Every PlaylistMetadataThread runs on its own, and
\* so does the playback thread of the AudioPlayer.
\* Largest value of the generation counter in a run.
MaxGeneration == 4
\* The keys of the tracks the playlist view shows.
View == << "a", "b" >>

\* Mutant: every connection is direct.
ConnectionDirect(sender, receiver) == "direct"

\* Qt.AutoConnection: the slot runs at once when the signal is emitted in the
\* thread of the receiver, and is queued for that thread otherwise
ConnectionOf(sender, receiver) == IF sender = receiver THEN "direct" ELSE "queued"

\* Mutant: no result is taken for stale.
StaleNever(generation) == FALSE

\* if generation != self._metadata_generation: return
Stale(generation) == generation /= _metadata_generation

\* PlaylistMetadataThread(generation, songs): not yet in its loop
NewWorker(generation, pending) ==
    [generation |-> generation, songs |-> pending, idx |-> 1, pc |-> "check",
     interrupted |-> FALSE, late |-> << >>, failed |-> 0]

\* thread.isRunning()
IsRunning(w) == workers[w].pc /= "done"

\* A signal in the queue of the UI thread.
Signal(sig, generation, key, art, w) ==
    [sig |-> sig, generation |-> generation, key |-> key, art |-> art, worker |-> w]
NoHandled ==
    [sig |-> "none", generation |-> 0, current |-> 0, changed |-> FALSE,
     name |-> "", ended |-> ""]

\* the songs of the list that miss an entry in one of the caches
Pending(list, cache, art_cache) ==
    SelectSeq(list, LAMBDA k : k \notin DOMAIN cache \/ k \notin DOMAIN art_cache)

\* _cancel_metadata_thread(): the workers after it
Cancelled ==
    IF metadata_thread /= 0 /\ IsRunning(metadata_thread)
    THEN [workers EXCEPT ![metadata_thread].interrupted = TRUE]
    ELSE workers

\* _refresh_playlist_view() with the caches as given, and the
\* _start_metadata_prefetch(pending_songs) at its end
RefreshPlaylistView(cache, art_cache) ==
    LET pending == Pending(View, cache, art_cache)
    IN  /\ _metadata_generation + 2 <= MaxGeneration
        /\ refreshes' = refreshes + 1
        /\ IF pending = << >>
           THEN /\ _metadata_generation' = _metadata_generation + 1
                /\ metadata_thread' = 0
                /\ workers' = Cancelled
           ELSE /\ _metadata_generation' = _metadata_generation + 2
                /\ metadata_thread' = Len(workers) + 1
                /\ workers' = Append(Cancelled,
                                     NewWorker(_metadata_generation + 2, pending))

\* playlist_manager.update_stat(name, key), called in thread
UpdateStatBy(made, key, thread) == made \cup {[key |-> key, thread |-> thread]}

\* play_track(index), run in thread, after the update_stat calls of its
\* caller; ok is whether load_and_play returns
PlayTrack(thread, ok, made, idx) ==
    /\ index' = idx % Len(View)
    /\ IF ok
       THEN /\ playback' = View[(idx % Len(View)) + 1]
            /\ stat_calls' = UpdateStatBy(made, "started", thread)
            /\ RefreshPlaylistView(_metadata_cache, _art_cache)
       ELSE /\ playback' = "none"
            /\ stat_calls' = made
            /\ UNCHANGED << _metadata_generation, metadata_thread, workers, refreshes >>

\* a handler of the UI thread that ends in _refresh_playlist_view()
RefreshView ==
    /\ RefreshPlaylistView(_metadata_cache, _art_cache)
    /\ UNCHANGED << _metadata_cache, _art_cache, events, playback, stat_calls,
                    handled, index, other_ui >>

\* refresh_metadata_cache()
RefreshMetadataCache ==
    /\ _metadata_cache' = EmptyMap
    /\ _art_cache' = EmptyMap
    /\ RefreshPlaylistView(EmptyMap, EmptyMap)
    /\ UNCHANGED << events, playback, stat_calls, handled, index, other_ui >>

\* _search_download_done(files, replace_queue, save_name) with the tracks on
\* show, no name to save under and autoplay_on_load off: set_playlist, which
\* puts the index back to 0, the caches cleared, the view refreshed
SearchDownloadDone ==
    /\ index' = 0
    /\ _metadata_cache' = EmptyMap
    /\ _art_cache' = EmptyMap
    /\ RefreshPlaylistView(EmptyMap, EmptyMap)
    /\ UNCHANGED << events, playback, stat_calls, handled, other_ui >>

\* the user starts a track: play_track(idx)
PlaySelected(ok, idx) ==
    /\ PlayTrack("ui", ok, stat_calls, idx)
    /\ UNCHANGED << _metadata_cache, _art_cache, events, handled, other_ui >>

\* play_next()
PlayNext(ok) ==
    /\ PlayTrack("ui", ok, UpdateStatBy(stat_calls, "skipped", "ui"),
                 NextOf(index, Len(View)))
    /\ UNCHANGED << _metadata_cache, _art_cache, events, handled, other_ui >>

\* play_prev()
PlayPrev(ok) ==
    /\ PlayTrack("ui", ok, UpdateStatBy(stat_calls, "skipped", "ui"),
                 PrevOf(index, Len(View)))
    /\ UNCHANGED << _metadata_cache, _art_cache, events, handled, other_ui >>

\* _on_track_finished(), run in thread: the song at the index is credited
\* with "played"; ended is the track whose session reached its end
OnTrackFinished(thread, ok, ended) ==
    /\ handled' = [sig |-> "track_finished", generation |-> 0, current |-> 0,
                   changed |-> FALSE, name |-> View[index + 1], ended |-> ended]
    /\ PlayTrack(thread, ok, UpdateStatBy(stat_calls, "played", thread),
                 NextOf(index, Len(View)))

\* The playback thread reaches the end of the track and calls on_track_end,
\* which is track_finished_signal.emit.
PlaybackEnds ==
    /\ playback /= "none"
    /\ IF ConnectionOf("playback", "ui") = "queued"
       THEN /\ events' = Append(events, Signal("track_finished", 0, playback, FALSE, 0))
            /\ playback' = "none"
            /\ UNCHANGED << _metadata_generation, metadata_thread, workers,
                            stat_calls, refreshes, handled, index >>
       ELSE /\ \E ok \in BOOLEAN : OnTrackFinished("playback", ok, playback)
            /\ UNCHANGED events
    /\ UNCHANGED << _metadata_cache, _art_cache, other_ui >>

\* The UI thread takes track_finished from its queue.
HandleTrackFinished(ok) ==
    /\ events /= << >>
    /\ Head(events).sig = "track_finished"
    /\ events' = Tail(events)
    /\ OnTrackFinished("ui", ok, Head(events).key)
    /\ UNCHANGED << _metadata_cache, _art_cache, other_ui >>

\* What the handler of a worker signal did.
Handle(e) ==
    handled' = [sig |-> e.sig, generation |-> e.generation,
                current |-> _metadata_generation,
                changed |-> \/ _metadata_cache' /= _metadata_cache
                            \/ _art_cache' /= _art_cache
                            \/ metadata_thread' /= metadata_thread,
                name |-> "", ended |-> ""]

\* _on_metadata_song_ready(generation, song_key, metadata, art_bytes)
OnMetadataSongReady ==
    LET e == Head(events)
    IN  /\ events /= << >>
        /\ e.sig = "song_ready"
        /\ events' = Tail(events)
        /\ IF Stale(e.generation)
           THEN UNCHANGED << _metadata_cache, _art_cache >>
           ELSE /\ _metadata_cache' = MapPut(_metadata_cache, e.key, e.generation)
                /\ _art_cache' =
                      IF e.art THEN MapPut(_art_cache, e.key, e.generation)
                      ELSE IF e.key \in DOMAIN _art_cache THEN _art_cache
                      ELSE MapPut(_art_cache, e.key, 0)
        /\ UNCHANGED metadata_thread
        /\ Handle(e)
        /\ UNCHANGED << _metadata_generation, workers, playback, stat_calls,
                        refreshes, index, other_ui >>

\* _on_metadata_batch_finished(generation), _on_metadata_batch_failed(generation, message)
OnMetadataBatchOver ==
    LET e == Head(events)
    IN  /\ events /= << >>
        /\ e.sig \in {"batch_finished", "failed"}
        /\ events' = Tail(events)
        /\ metadata_thread' = IF Stale(e.generation) THEN metadata_thread ELSE 0
        /\ UNCHANGED << _metadata_cache, _art_cache >>
        /\ Handle(e)
        /\ UNCHANGED << _metadata_generation, workers, playback, stat_calls,
                        refreshes, index, other_ui >>

\* _on_metadata_worker_finished(thread)
OnMetadataWorkerFinished ==
    LET e == Head(events)
    IN  /\ events /= << >>
        /\ e.sig = "finished"
        /\ events' = Tail(events)
        /\ metadata_thread' = IF metadata_thread = e.worker THEN 0 ELSE metadata_thread
        /\ UNCHANGED << _metadata_generation, _metadata_cache, _art_cache, workers,
                        playback, stat_calls, handled, refreshes, index, other_ui >>

\* The worker emits sig: it is queued for the UI thread.
WorkerEmits(w, sig, key, art, pc_after, idx_after) ==
    /\ events' = Append(events, Signal(sig, workers[w].generation, key, art, w))
    /\ workers' = [workers EXCEPT
                      ![w].pc = pc_after,
                      ![w].idx = idx_after,
                      ![w].late = IF workers[w].interrupted /\ sig /= "failed"
                                  THEN Append(@, sig) ELSE @,
                      ![w].failed = IF sig = "failed" THEN workers[w].idx ELSE @]
    /\ UNCHANGED << _metadata_generation, metadata_thread, _metadata_cache, _art_cache,
                    playback, stat_calls, handled, refreshes, index, other_ui >>

\* run(): the head of the loop, if self.isInterruptionRequested(): return
WorkerChecks(w) ==
    /\ workers[w].pc = "check"
    /\ workers' = [workers EXCEPT
                      ![w].pc = IF workers[w].interrupted THEN "returned" ELSE "read"]
    /\ UNCHANGED << _metadata_generation, metadata_thread, _metadata_cache, _art_cache,
                    events, playback, stat_calls, handled, refreshes, index, other_ui >>

\* run(): read_audio_metadata, read_album_art_bytes and song_ready.emit
WorkerSongReady(w, art) ==
    LET idx == workers[w].idx
        total == Len(workers[w].songs)
    IN  /\ workers[w].pc = "read"
        /\ WorkerEmits(w, "song_ready", workers[w].songs[idx], art,
                       IF idx = total THEN "end" ELSE "check", idx + 1)

\* run(): a read raises, failed.emit
WorkerFails(w) ==
    /\ workers[w].pc = "read"
    /\ WorkerEmits(w, "failed", "", FALSE, "returned", workers[w].idx)

\* run(): after the loop, batch_finished.emit
WorkerBatchFinished(w) ==
    /\ workers[w].pc = "end"
    /\ WorkerEmits(w, "batch_finished", "", FALSE, "returned", workers[w].idx)

\* run() has returned: the thread emits finished and is over
WorkerExits(w) ==
    /\ workers[w].pc = "returned"
    /\ events' = Append(events, Signal("finished", workers[w].generation, "", FALSE, w))
    /\ workers' = [workers EXCEPT ![w].pc = "done"]
    /\ UNCHANGED << _metadata_generation, metadata_thread, _metadata_cache, _art_cache,
                    playback, stat_calls, handled, refreshes, index, other_ui >>

\* The tracks: the user plays and skips and replaces the playlist, the
\* playback thread reaches the end of a track, the UI thread takes the
\* track_finished signals from its queue.
TrackNext ==
    \/ SearchDownloadDone
    \/ \E ok \in BOOLEAN, idx \in 0..(Len(View) - 1) : PlaySelected(ok, idx)
    \/ \E ok \in BOOLEAN : PlayNext(ok)
    \/ \E ok \in BOOLEAN : PlayPrev(ok)
    \/ PlaybackEnds
    \/ \E ok \in BOOLEAN : HandleTrackFinished(ok)

\* The metadata of the view: the handlers that refresh it, the workers, the
\* UI thread taking the workers' signals from its queue.
UiNext ==
    \/ RefreshView
    \/ RefreshMetadataCache
    \/ \E ok \in BOOLEAN, idx \in 0..(Len(View) - 1) : PlaySelected(ok, idx)
    \/ OnMetadataSongReady
    \/ OnMetadataBatchOver
    \/ OnMetadataWorkerFinished
    \/ \E w \in 1..Len(workers) : WorkerChecks(w)
    \/ \E w \in 1..Len(workers), art \in BOOLEAN : WorkerSongReady(w, art)
    \/ \E w \in 1..Len(workers) : WorkerFails(w)
    \/ \E w \in 1..Len(workers) : WorkerBatchFinished(w)
    \/ \E w \in 1..Len(workers) : WorkerExits(w)

\* MainWindow.__init__: no worker, empty caches, nothing played
UiIdle ==
    /\ _metadata_generation = 0
    /\ metadata_thread = 0
    /\ _metadata_cache = EmptyMap
    /\ _art_cache = EmptyMap
    /\ workers = << >>
    /\ events = << >>
    /\ playback = "none"
    /\ stat_calls = {}
    /\ handled = NoHandled
    /\ refreshes = 0

\* ------------------------------------------------------------ the system
\* The player's specifications leave the other components as constructed.
OthersIdle ==
    /\ songs = << >>
    /\ store_ops = 0
    /\ PlaylistManagerInit(NoFile, NoFile)
    /\ MetaIdle
    /\ ScaleIdle
    /\ UiIdle

Init ==
    /\ Constructed
    /\ calls = MaxCalls
    /\ loads_left = MaxCalls
    /\ OthersIdle

LiveInit ==
    /\ Constructed
    /\ calls = LiveCalls
    /\ loads_left = LiveSessions
    /\ OthersIdle

StopStep(p) ==
    \/ Stop1(p)
    \/ JoinReturns(p)
    \/ JoinTimesOut(p)
    \/ StopClose1(p)
    \/ StopClose2(p)
    \/ StopFlags(p)

ThreadStep(t) ==
    \/ BeginEmpty(t)
    \/ OpenStream(t)
    \/ OpenFails(t)
    \/ LoopExit(t)
    \/ PausedSleep(t)
    \/ LoopContinue(t)
    \/ ReadChunk(t)
    \/ WriteReturns(t)
    \/ WriteFails(t)
    \/ LoopClose1(t)
    \/ LoopClose2(t)
    \/ ShouldFire(t)
    \/ ClearFlags(t)
    \/ Notify(t)
    \/ NoNotify(t)

CtlStep ==
    \/ CallStop
    \/ \E s \in SeekArgs : CallLoad(s)
    \/ DecodeFails
    \/ Raised
    \/ \E len \in BufLens : Decode(len)
    \/ StartThread
    \/ CallPause
    \/ CallResume
    \/ CallTogglePause
    \/ Pause2
    \/ Resume2
    \/ \E s \in SeekArgs : Seek(s)

Next ==
    \/ CtlStep
    \/ \E p \in Procs : StopStep(p)
    \/ \E t \in Threads : ThreadStep(t)

Spec == Init /\ [][Next]_vars

\* What the scheduling guarantees: a process inside stop() goes on (the join is
\* bounded by its timeout), and a playback thread goes on unless it sits in
\* the device write, which may block for ever.
ThreadRuns(t) ==
    \/ BeginEmpty(t)
    \/ OpenStream(t)
    \/ LoopExit(t)
    \/ LoopContinue(t)
    \/ ReadChunk(t)
    \/ LoopClose1(t)
    \/ LoopClose2(t)
    \/ ShouldFire(t)
    \/ ClearFlags(t)
    \/ Notify(t)
    \/ NoNotify(t)

Fairness ==
    /\ \A p \in Procs : WF_vars(StopStep(p))
    /\ \A t \in Threads : WF_vars(ThreadRuns(t))

LiveSpec == LiveInit /\ [][Next]_vars /\ Fairness

\* The player stays as constructed and makes no call.
PlayerIdle ==
    /\ Constructed
    /\ calls = 0
    /\ loads_left = 0
    /\ cb_stops = FALSE

\* The PlaylistManager on its own: the importer's list is any list of at most
\* MaxSongs paths, the files are absent.
PlaylistInit ==
    /\ PlayerIdle
    /\ songs \in ListsUpTo(MaxSongs)
    /\ store_ops = 0
    /\ PlaylistManagerInit(NoFile, NoFile)
    /\ MetaIdle
    /\ ScaleIdle
    /\ UiIdle

PlaylistSpec == PlaylistInit /\ [][PlaylistNext]_vars

\* Files an earlier run of the program left behind: none, one it wrote, or
\* one a failed write cut short.
OldStats == [n \in {<< "a", ".", "m", "p", "3" >>} |->
                [played |-> MaxCount, started |-> MaxCount, skipped |-> 0]]
OldSaved == [n \in {<< "p" >>} |-> << TrackB >>]

\* The files of the PlaylistManager: a playlist is loaded (or none), the
\* statistics and saved playlists are those of an earlier run, and at most
\* MaxStoreOps calls write them.
StoreInit ==
    /\ PlayerIdle
    /\ songs \in {<< >>, << TrackB, TextFile, TrackUpperA >>}
    /\ store_ops = MaxStoreOps
    /\ \E stats \in {NoFile, FileOf(OldStats), CutFile},
          saved \in {NoFile, FileOf(OldSaved)} :
          PlaylistManagerInit(stats, saved)
    /\ MetaIdle
    /\ ScaleIdle
    /\ UiIdle

StoreSpec == StoreInit /\ [][StoreNext]_vars

\* The playlist and its view: the importer's list is empty, or names files
\* that are no tracks, or names a track twice; one snapshot is saved, which
\* names a file that is gone.
SavedLists == [n \in {<< "p" >>} |-> << TrackB, Missing, TrackLowerA >>]
ViewInit ==
    /\ PlayerIdle
    /\ songs \in {<< >>, << TrackB, TextFile, Missing, TrackUpperA >>,
                 << TrackB, TrackUpperA, TrackB >>}
    /\ store_ops = 0
    /\ PlaylistManagerInit(NoFile, FileOf(SavedLists))
    /\ MetaIdle
    /\ ScaleIdle
    /\ UiIdle

ViewSpec == ViewInit /\ [][ViewNext]_vars

\* read_audio_metadata on its own.  The stems: a plain title, artist and
\* title, a stem that is all track number, a blank one.
Stems == { << "T" >>, << "A", " ", "-", " ", "T" >>, << "1", "-" >>, << " " >> }
\* The tags ffprobe reports: a title (absent, blank, plain, or with an artist
\* in it) and an artist (absent or not).
TagTitles == { NoneText, << " " >>, << "X" >>, << "B", " ", "-", " ", "X" >> }
TagArtists == { NoneText, << "Y" >> }
TagsOf(title, artist) ==
    [k \in (IF title = NoneText THEN {} ELSE {"title"})
            \cup (IF artist = NoneText THEN {} ELSE {"artist"}) |->
        IF k = "title" THEN title ELSE artist]
\* The bit_rate and duration values it reports.
StreamRates == { Absent, NotANumber, Number(-5), Number(128000), Infinite }
FormatRates == { Absent, Number(192000), Infinite }
FormatDurations == { Absent, Number(-1), Number(3) }
\* The probes that report a duration or a bit rate at more than one level:
\* the stream's, the format's, and a bitrate tag, each there or not.
StreamDurations == { Absent, Number(7) }
BitrateTags == { NoTags, [k \in {"bitrate"} |-> << "6", "4", "0", "0", "0" >>] }
RateProbes ==
    {ProbeJson(Part(duration, format_rate, tags), Part(stream_duration, stream_rate, NoTags)) :
        duration \in {Absent, Number(3)}, format_rate \in {Absent, Number(192000)},
        tags \in BitrateTags, stream_duration \in StreamDurations,
        stream_rate \in {Absent, Number(128000)}}
Probes ==
    RateProbes \cup
    {FailedProbe(why) : why \in ProbeFailures}
    \cup {ProbeJson(NoPart, NoPart)}
    \cup {ProbeJson(Part(duration, format_rate, TagsOf(title, artist)),
                    Part(Absent, stream_rate, NoTags)) :
             duration \in FormatDurations, format_rate \in FormatRates,
             title \in TagTitles, artist \in TagArtists, stream_rate \in StreamRates}
\* The sidecar objects: a title, an uploader and an album, each there or not.
SidecarValue(key) ==
    CASE key = "title" -> << "S" >>
      [] key = "uploader" -> << "U" >>
      [] key = "album" -> << " ", "Z" >>
SidecarObjects ==
    {Object([k \in keys |-> SidecarValue(k)], << >>) :
        keys \in SUBSET {"title", "uploader", "album"}}
\* The sidecar objects that say a genre: a genre field (absent, blank or
\* not) and a categories list (empty, or a blank entry before a category).
GenreValues == { NoneText, << " " >>, << "G" >> }
CategoryLists == { << >>, << << " " >>, << "C" >> >> }
GenreObjects ==
    {Object([k \in (IF genre = NoneText THEN {} ELSE {"genre"}) |-> genre], categories) :
        genre \in GenreValues, categories \in CategoryLists}
Sidecars ==
    {<< >>, << Unreadable >>, << NotAnObject >>}
    \cup {<< o >> : o \in SidecarObjects \cup GenreObjects}
    \cup {<< Unreadable, o >> : o \in SidecarObjects}

MetaInit ==
    /\ PlayerIdle
    /\ songs = << >>
    /\ store_ops = 0
    /\ PlaylistManagerInit(NoFile, NoFile)
    /\ meta_path \in Stems
    /\ probe \in Probes
    /\ sidecars \in Sidecars
    /\ metadata = [state |-> "none", record |-> NoRecord]
    /\ ScaleIdle
    /\ UiIdle

MetaSpec == MetaInit /\ [][MetaNext]_vars

\* _scale_pcm on its own: every chunk of at most MaxSamples samples, the
\* volumes of Volumes.
ScaleInit ==
    /\ PlayerIdle
    /\ songs = << >>
    /\ store_ops = 0
    /\ PlaylistManagerInit(NoFile, NoFile)
    /\ MetaIdle
    /\ pcm_chunk \in Chunks
    /\ pcm_volume \in Volumes
    /\ pcm_out = NoneText
    /\ UiIdle

ScaleSpec == ScaleInit /\ [][ScaleNext]_vars

\* The window with a playlist on show: the user refreshes and plays, the
\* workers and the playback thread run beside the UI thread.
UiInit ==
    /\ PlayerIdle
    /\ songs = << >>
    /\ store_ops = 0
    /\ PlaylistManagerInit(NoFile, NoFile)
    /\ MetaIdle
    /\ ScaleIdle
    /\ UiIdle

UiSpec == UiInit /\ [][UiNext]_vars

TrackSpec == UiInit /\ [][TrackNext]_vars

\* ================================================================ claims
StopPcs == {"stop1", "join", "sclose1", "sclose2", "sflags"}
LoopPcs == {"begin", "loop", "read", "in_write"}
InStop(p) == pc[p] \in StopPcs
Alive == {t \in Threads : IsAlive(t)}

\* C1: once stop() has been called on a session whose on_track_end has not
\* been invoked yet, on_track_end is never invoked for that session.
C1_StopNeverNotifies ==
    \A t \in Threads : stopped[t] => fired[t] = 0

\* C2 (its safety half): a session that is not stopped sees on_track_end
\* invoked at most once between its start and the next start.
C2_NotifiedOnce ==
    ~session_stopped => session_fired <= 1

\* C3: at most one playback thread is alive in every reachable state.
C3_OneThreadAlive ==
    Cardinality(Alive) <= 1

\* C4: when the playback thread is about to read the position and a seek of
\* the playing session has not been read yet, the position is that seek's
\* target.
C4_SeekNotLost ==
    \A t \in Threads :
        pc[t] = "read" => \A target \in seek_pending : position_frame = target

C6_StreamOwned ==
    /\ Cardinality(open) <= 1
    /\ \A t \in Threads :
        /\ pc[t] = "in_write" => wr_stream[t] = t
        /\ pc[t] \in {"close1", "sclose1"} => stream \in {None, t}

\* C7: when load_and_play has raised, no thread is referenced, playing and
\* paused are false, and every thread still alive belongs to a session that
\* was stopped or has already notified.
C7_DecodeFailureStartsNothing ==
    pc[Ctl] = "raised" =>
        /\ thread_ref = None
        /\ ~playing
        /\ ~paused
        /\ \A t \in Alive : stopped[t] \/ fired[t] > 0

\* C7 witness: load_and_play raises after an earlier session was started.
C7_Witness ==
    pc[Ctl] = "raised" /\ nthreads >= 1

\* C8: after a write failure in the latest session, once its thread has
\* ended and the controller is idle, on_track_end was not invoked, the
\* session's stream is closed and playing and paused are false.
C8_WriteFailureEndsSession ==
    \A t \in Threads :
        (write_failed[t] /\ pc[t] = "done" /\ t = nthreads /\ pc[Ctl] = "idle"
         /\ Alive = {}) =>
            (fired[t] = 0 /\ t \notin open /\ ~playing /\ ~paused)

\* C9 as stated: after the controller's stop() on a paused session the
\* session's thread starts no further device write.
C9_NoWriteAfterPausedStop ==
    \A t \in Threads : pstop[t] \notin {"wait_wrote", "busy_wrote"}

\* C9 as amended: when the controller calls stop() on a paused session whose
\* thread is at the head of its loop (in its paused wait), that thread
\* starts no device write afterwards and terminates, and stop() returns.
C9_PausedStopTerminates ==
    /\ [](\A t \in Threads : pstop[t] /= "wait_wrote")
    /\ \A t \in Threads : [](pstop[t] = "wait" => <>(pc[t] = "done"))
    /\ [](InStop(Ctl) => <>(~InStop(Ctl)))

\* C9 witness: the thread the controller stopped in its paused wait has ended.
C9_Witness ==
    \E t \in Threads : pstop[t] = "wait" /\ pc[t] = "done" /\ ~InStop(Ctl)

\* C10: every process that entered stop() leaves it, and a playback thread
\* inside stop() never joins itself.
C10_StopReturns ==
    /\ \A p \in Procs : [](InStop(p) => <>(~InStop(p)))
    /\ [](\A t \in Threads : pc[t] = "join" => joinee[t] /= t)

\* C10 witness: a playback thread has run stop() from its callback, without
\* a join, and has ended.
C10_Witness ==
    \E t \in Threads : fired[t] = 1 /\ cb_stops /\ pc[t] = "done"

\* ------------------------------------------------ claims: PlaylistManager
\* How often x occurs in seq.
Count(seq, x) == Cardinality({i \in 1..Len(seq) : seq[i] = x})
SameMultiset(a, b) ==
    \A x \in {a[i] : i \in 1..Len(a)} \cup {b[i] : i \in 1..Len(b)} :
        Count(a, x) = Count(b, x)
ShuffleReturned == call.shuf /= NoShuffle

\* C11: every call of _seeded_shuffle returns a list of the length of its
\* input with the same multiset of elements, and leaves the list it was given
\* as it was.
C11_ShufflePermutes ==
    ShuffleReturned =>
        /\ Len(call.shuf.result) = Len(call.shuf.input)
        /\ SameMultiset(call.shuf.result, call.shuf.input)
        /\ call.shuf.arg = call.shuf.input

C11_Witness ==
    /\ call.of = "_seeded_shuffle"
    /\ Len(call.shuf.input) = MaxSongs
    /\ call.shuf.result /= call.shuf.input
    /\ call.shuf.input /= Canonical

AllSupported == \A i \in 1..Len(songs) : Supported(songs[i])

\* C13: reshuffle(seed=s) right after set_playlist(songs, shuffle=True,
\* seed=s), for a list of existing supported tracks and a given seed s, leaves
\* the playlist in the order set_playlist produced.
C13_RoundTrip ==
    (/\ call.of = "reshuffle"
     /\ call.prev.of = "set_playlist"
     /\ call.prev.seed = call.seed
     /\ ~DrawsSeed(call.seed)
     /\ AllSupported)
    => playlist = call.before.playlist

SeedCall ==
    \/ call.of = "set_playlist" /\ call.shuffle
    \/ call.of = "reshuffle" /\ call.before.playlist /= << >>

\* C14: a non-empty seed text is used verbatim by set_playlist(shuffle=True)
\* and reshuffle: it is returned and stored in shuffle_seed; without shuffle the
\* returned seed and shuffle_seed are None.
C14_SeedVerbatim ==
    /\ (SeedCall /\ call.seed \notin {NoneText, << >>})
           => (call.value = call.seed /\ shuffle_seed = call.seed)
    /\ (call.of = "set_playlist" /\ ~call.shuffle)
           => (call.value = NoneText /\ shuffle_seed = NoneText)

\* C14, amended: the seed text is used with the blanks around it stripped; a
\* seed that is None or blank makes a fresh seed; without shuffle the returned
\* seed and shuffle_seed are None.
C14_SeedStripped ==
    /\ (SeedCall /\ call.seed /= NoneText /\ Strip(call.seed) /= << >>)
           => (call.value = Strip(call.seed) /\ shuffle_seed = Strip(call.seed))
    /\ (SeedCall /\ (call.seed = NoneText \/ Strip(call.seed) = << >>))
           => (call.value \in FreshSeeds /\ shuffle_seed = call.value)
    /\ (call.of = "set_playlist" /\ ~call.shuffle)
           => (call.value = NoneText /\ shuffle_seed = NoneText)

C14_Witness ==
    /\ call.of = "reshuffle"
    /\ call.seed = << " ", "a" >>
    /\ call.value = << "a" >>
    /\ call.before.shuffle_seed \in FreshSeeds

\* C15: on a playlist of N >= 1 tracks next_index moves the index one up and
\* from N-1 to 0, prev_index one down and from 0 to N-1, both return the new
\* index, and prev_index right after next_index restores the index; on an
\* empty playlist both return 0 and change nothing.
C15_IndexWraps ==
    LET n == Len(call.before.playlist)
        i == call.before.index
    IN  /\ (call.of = "next_index" /\ n >= 1)
               => (/\ index = IF i = n - 1 THEN 0 ELSE i + 1
                   /\ call.value = index)
        /\ (call.of = "prev_index" /\ n >= 1)
               => (/\ index = IF i = 0 THEN n - 1 ELSE i - 1
                   /\ call.value = index
                   /\ call.prev.of = "next_index" => index = call.prev.index)
        /\ (call.of \in {"next_index", "prev_index"} /\ n = 0)
               => (call.value = 0 /\ Fields = call.before)

\* next_index from the last track, then prev_index
C15_Witness ==
    /\ call.of = "prev_index"
    /\ call.prev.of = "next_index"
    /\ Len(playlist) > 2
    /\ call.before.index = 0
    /\ index = Len(playlist) - 1

\* ------------------------------------- claims: statistics and saved files
Counters == {"played", "started", "skipped"}
\* the entry of name before the call, all zero if there was none
EntryBefore(name) ==
    IF name \in DOMAIN call.before.song_stats
    THEN call.before.song_stats[name]
    ELSE ZeroEntry

\* C16: update_stat(name, kind) with kind one of the three counters, when it
\* returns, has raised that counter of that name by 1 (from 0 if the name had
\* no entry), left the other two counters and every other entry as they were,
\* and the stats file holds the mapping in memory.
C16_UpdateStatCounts ==
    (/\ call.of = "update_stat"
     /\ call.store.key \in Counters
     /\ ~call.store.raised)
    => LET name == call.store.name
           key == call.store.key
       IN  /\ DOMAIN song_stats = DOMAIN call.before.song_stats \cup {name}
           /\ song_stats[name][key] = EntryBefore(name)[key] + 1
           /\ \A k \in Counters \ {key} : song_stats[name][k] = EntryBefore(name)[k]
           /\ \A n \in DOMAIN song_stats \ {name} :
                  song_stats[n] = call.before.song_stats[n]
           /\ stats_file = FileOf(song_stats)

\* MaxStoreOps calls with "played" on a name that had no entry
C16_Witness ==
    /\ call.of = "update_stat"
    /\ ~call.store.raised
    /\ call.store.name \notin DOMAIN OldStats
    /\ song_stats[call.store.name] =
          [played |-> MaxStoreOps, started |-> 0, skipped |-> 0]
    /\ DOMAIN song_stats /= {call.store.name}

\* C17: update_stat with a key that is none of the three counters raises
\* nothing, writes nothing and leaves the stats mapping and the stats file as
\* they were.
C17_UnknownKindIgnored ==
    (call.of = "update_stat" /\ call.store.key \notin Counters)
    => /\ ~call.store.raised
       /\ ~call.store.wrote
       /\ song_stats = call.before.song_stats
       /\ stats_file = call.before.stats_file

\* C18: a write of the stats file or of the saved-playlists file that fails
\* raises to the caller and leaves the file holding the complete mapping of
\* the last successful write.
C18_FailedWriteKeepsFile ==
    (call.store.wrote /\ call.store.raised)
    => /\ (good_stats.exists /\ good_stats.whole) => stats_file = good_stats
       /\ (good_saved.exists /\ good_saved.whole) => saved_file = good_saved

\* ---------------------------------------------------------------- C19
\* C19: every call of read_audio_metadata returns a record, and the title
\* and the artist of the record are not empty.
C19_AlwaysNamed ==
    metadata.state /= "none" =>
        /\ metadata.state = "returned"
        /\ metadata.record.title /= << >>
        /\ metadata.record.artist /= << >>

\* ---------------------------------------------------------------- C20
\* a number ffprobe reports, with what is no number in range left out
SkippedValue(value) == IF value.kind = "number" THEN value ELSE Absent
SkippedPart(part) ==
    [part EXCEPT !.duration = SkippedValue(part.duration),
                 !.bit_rate = SkippedValue(part.bit_rate)]
IsObject(candidate) == candidate.state = "object"

\* C20: a call of read_audio_metadata does not raise; it returns what the
\* sources that did not fail give: the filename and the first readable
\* sidecar object when the probe fails, and else the probe's values too,
\* without those that are no numbers in range.
C20_FailuresSkipped ==
    metadata.state /= "none" =>
        /\ metadata.state = "returned"
        /\ metadata.record =
              IF probe.outcome \in ProbeFailures
              THEN _merge_ytdlp_metadata(Fallback(meta_path),
                                         FirstObject(SelectSeq(sidecars, IsObject)))
              ELSE _merge_ytdlp_metadata(
                       Resolved(Fallback(meta_path), SkippedPart(probe.format),
                                SkippedPart(probe.audio)),
                       FirstObject(SelectSeq(sidecars, IsObject)))

\* ---------------------------------------------------------------- C21
\* what the call returns when no sidecar is beside the file: the result
\* merged from the filename and the tags
WithoutSidecar == read_audio_metadata(meta_path, probe, << >>).record
TextFields == {"title", "artist", "album", "year", "genre"}
Placeholders == {UnknownArtist, UnknownAlbum}

\* C21: in the record a call returns, each of title, artist, album, year and
\* genre that the filename and the tags give a value to, other than a
\* placeholder, has that value, whatever the sidecar holds.
C21_SidecarFillsGaps ==
    metadata.state = "returned" =>
        \A f \in TextFields :
            (WithoutSidecar[f] /= << >> /\ WithoutSidecar[f] \notin Placeholders)
                => metadata.record[f] = WithoutSidecar[f]

\* ---------------------------------------------------------------- C22
\* no tag source, artist and title in the filename, a sidecar with an album
\* and nothing else
AlbumOnly ==
    /\ probe.outcome \in ProbeFailures
    /\ _parse_filename_title_artist(meta_path).artist /= << >>
    /\ DOMAIN FirstObject(sidecars).data = {"album"}
    /\ FirstObject(sidecars).categories = << >>

\* C22: with no tag source, a filename that gives artist A and title T and a
\* sidecar that holds an album Z only, the record returned has title T,
\* artist A and album Z.
C22_AlbumFromSidecar ==
    (metadata.state = "returned" /\ AlbumOnly) =>
        /\ metadata.record.title = << "T" >>
        /\ metadata.record.artist = << "A" >>
        /\ metadata.record.album = << "Z" >>

C22_Witness ==
    /\ metadata.state = "returned"
    /\ AlbumOnly
    /\ probe.outcome = "run raises"
    /\ Len(sidecars) > 1
    /\ metadata.record.album = << "Z" >>

\* ---------------------------------------------------------------- C23
\* C23: once interruption has been requested on a worker it emits no
\* song_ready and no batch_finished: no worker has emitted one of them after
\* the request.
C23_CancelledEmitsNothing ==
    \A w \in 1..Len(workers) : workers[w].late = << >>

\* ---------------------------------------------------------------- C24
\* C24: a song_ready, batch_finished or failed signal whose generation is not
\* the current counter changes neither cache nor metadata_thread; the counter
\* never decreases, and every _refresh_playlist_view and every started batch
\* increases it, the batch taking the new value.
C24_StaleDiscarded ==
    /\ [](handled.generation /= handled.current => ~handled.changed)
    /\ [][/\ _metadata_generation' >= _metadata_generation
          /\ refreshes' /= refreshes => _metadata_generation' > _metadata_generation
          /\ Len(workers') > Len(workers) =>
                /\ _metadata_generation' > _metadata_generation
                /\ workers'[Len(workers')].generation = _metadata_generation']_vars

C24_Witness ==
    /\ handled.sig = "song_ready"
    /\ handled.generation < handled.current
    /\ metadata_thread /= 0
    /\ _metadata_cache = EmptyMap

\* ---------------------------------------------------------------- C25
\* C25: every update_stat call (started, skipped, played) is made by the UI
\* thread; the playback thread makes none.
C25_SingleWriter == \A c \in stat_calls : c.thread = "ui"

C25_Witness ==
    /\ [key |-> "played", thread |-> "ui"] \in stat_calls
    /\ [key |-> "skipped", thread |-> "ui"] \in stat_calls
    /\ playback /= "none"

\* ---------------------------------------------------------------- C26
\* the k-th 16-bit sample of a chunk
Sample16(chunk, k) ==
    chunk[2 * k - 1] + 256 * chunk[2 * k] - (IF chunk[2 * k] >= 128 THEN 65536 ELSE 0)

\* value is x / VolumeUnit with its fraction cut off, within -32768..32767
CutProduct(value, x) ==
    /\ value \in -32768..32767
    /\ IF x >= 0
       THEN value * VolumeUnit <= x /\ x < (value + 1) * VolumeUnit
       ELSE (value - 1) * VolumeUnit < x /\ x <= value * VolumeUnit

ScaledBy(chunk, out, volume) ==
    /\ Len(out) = Len(chunk)
    /\ \A k \in 1..(Len(chunk) \div 2) :
           CutProduct(Sample16(out, k), Sample16(chunk, k) * volume)

\* C26: for 16-bit samples, volume 1.0 returns the chunk, volume 0.0 a chunk
\* of zeros of the same length, and every volume in between the samples
\* multiplied by the volume, the fraction cut off.
C26_ScalesEveryVolume ==
    pcm_out /= NoneText =>
        /\ pcm_volume = VolumeUnit => pcm_out = pcm_chunk
        /\ pcm_volume = 0 => pcm_out = [i \in 1..Len(pcm_chunk) |-> 0]
        /\ (0 < pcm_volume /\ pcm_volume < VolumeUnit)
               => ScaledBy(pcm_chunk, pcm_out, pcm_volume)

\* C26, amended: a volume of 0.999 or more returns the chunk, one of 0.001
\* or less a chunk of zeros of the same length, and every volume between
\* the two the samples multiplied by the volume, the fraction cut off.
C26_ScalesBetweenThresholds ==
    pcm_out /= NoneText =>
        /\ pcm_volume * 1000 >= 999 * VolumeUnit => pcm_out = pcm_chunk
        /\ pcm_volume * 1000 <= VolumeUnit
               => pcm_out = [i \in 1..Len(pcm_chunk) |-> 0]
        /\ (pcm_volume * 1000 > VolumeUnit /\ pcm_volume * 1000 < 999 * VolumeUnit)
               => ScaledBy(pcm_chunk, pcm_out, pcm_volume)

\* half volume on a chunk that holds -1 and 32767: 0 and 16383
C26_Witness ==
    /\ pcm_out /= NoneText
    /\ pcm_volume = 512
    /\ pcm_chunk = << 255, 255, 255, 127 >>
    /\ pcm_out = << 0, 0, 255, 63 >>

\* ---------------------------------------------------------------- C27
\* C27: in every state the position is within the loaded buffer,
\* 0 <= position_frame <= frame_count.
C27_PositionInBuffer == 0 <= position_frame /\ position_frame <= frame_count

\* ---------------------------------------------------------------- C28
\* C28: in every state, after any sequence of set_playlist, load_folder,
\* load_saved_playlist, reshuffle, apply_search, next_index and prev_index,
\* the playlist is empty and index is 0, or 0 <= index < len(playlist).
C28_IndexValid ==
    \/ playlist = << >> /\ index = 0
    \/ 0 <= index /\ index < Len(playlist)

C28_Witness ==
    /\ call.of = "load_saved_playlist"
    /\ call.before.index = 2
    /\ Len(playlist) = 2
    /\ index = 0

\* ---------------------------------------------------------------- C29
\* C29: in every state filtered_playlist is the subsequence of playlist, in
\* playlist order, of the tracks whose lower-cased file name contains
\* search_query, and it is the whole playlist when search_query is empty.
C29_FilteredDerived ==
    /\ filtered_playlist =
          SelectSeq(playlist, LAMBDA p : Contains(search_query, Lower(Name(p))))
    /\ search_query = << >> => filtered_playlist = playlist

C29_Witness ==
    /\ call.of = "reshuffle"
    /\ search_query = << "a" >>
    /\ Len(playlist) = 3
    /\ playlist /= call.before.playlist
    /\ filtered_playlist = << TrackUpperA, TrackLowerA >>

\* ---------------------------------------------------------------- C30
\* C30: after reshuffle on a non-empty playlist the playlist is a permutation
\* of the playlist before the call and playlist[index] is the track that
\* playlist[index] was before the call; on an empty playlist reshuffle
\* returns None and changes neither playlist, index, filtered view nor
\* shuffle_seed.
C30_ReshuffleKeepsCurrent ==
    call.of = "reshuffle" =>
        IF call.before.playlist = << >>
        THEN /\ call.value = NoneText
             /\ playlist = call.before.playlist
             /\ index = call.before.index
             /\ filtered_playlist = call.before.filtered_playlist
             /\ shuffle_seed = call.before.shuffle_seed
        ELSE /\ Len(playlist) = Len(call.before.playlist)
             /\ SameMultiset(playlist, call.before.playlist)
             /\ playlist[index + 1] = call.before.playlist[call.before.index + 1]

C30_Witness ==
    /\ call.of = "reshuffle"
    /\ Len(playlist) = 3
    /\ call.before.index = 2
    /\ index = 0
    /\ playlist /= call.before.playlist

\* ---------------------------------------------------------------- C31
\* the fields of the live playlist are as they were before the call
LiveUnchanged ==
    /\ playlist = call.before.playlist
    /\ filtered_playlist = call.before.filtered_playlist
    /\ index = call.before.index
    /\ shuffle_seed = call.before.shuffle_seed

\* C31: load_folder on a path that does not exist or is not a directory
\* returns None and leaves playlist, filtered_playlist, index, search_query
\* and shuffle_seed as they were.
C31_BadFolderNoOp ==
    (call.of = "load_folder" /\ call.target /= Folder) =>
        /\ call.value = NoneText
        /\ LiveUnchanged
        /\ search_query = call.before.search_query

C31_Witness ==
    /\ call.of = "load_folder"
    /\ call.target = TrackB
    /\ call.shuffle
    /\ Len(playlist) = 3
    /\ index = 2
    /\ search_query /= << >>
    /\ shuffle_seed /= NoneText

\* ---------------------------------------------------------------- C40
\* C40: load_saved_playlist with a name that has no saved snapshot leaves
\* playlist, filtered_playlist, index and shuffle_seed as they were.
C40_UnknownSnapshotNoOp ==
    (/\ call.of = "load_saved_playlist"
     /\ _normalize_playlist_name(call.target) \notin DOMAIN call.before.saved_playlists)
        => LiveUnchanged

\* ---------------------------------------------------------------- C32
\* playing and paused are false, the stream handle and the thread reference
\* are cleared
Cleared == ~playing /\ ~paused /\ stream = None /\ thread_ref = None

C38_PausedImpliesPlaying ==
    (\A t \in Threads : ~IsAlive(t)) => ~(paused /\ ~playing)

\* ---------------------------------------------------------------- C33
\* C33: a session whose opening of the output device raised has ended: its
\* thread has returned without writing a chunk, without a handle and without
\* invoking on_track_end, it never runs again, and while it is the latest
\* session and the controller is idle playing and paused are both false.
C33_OpenFailureEndsSession ==
    \A t \in Threads :
        open_failed[t] =>
            /\ pc[t] = "done"
            /\ fired[t] = 0
            /\ wr_stream[t] = None
            /\ ~write_failed[t]
            /\ t \notin open
            /\ stream /= t
            /\ (t = nthreads /\ pc[Ctl] = "idle") => (~playing /\ ~paused)

\* ---------------------------------------------------------------- C34
\* the sidecar's direct genre field, cleaned
DirectGenre == _clean_text(TextOf(Get(FirstObject(sidecars), "genre")))

\* C34: when the filename and the tags give no genre, the record returned
\* has the sidecar's direct genre field if that is not empty, and the first
\* non-empty entry of the categories list only if it is empty or absent.
C34_DirectGenreFirst ==
    (metadata.state = "returned" /\ WithoutSidecar.genre = << >>) =>
        metadata.record.genre =
            IF DirectGenre /= << >> THEN DirectGenre
            ELSE FirstClean(FirstObject(sidecars).categories)

\* ---------------------------------------------------------------- C35
\* the bitrate a numeric tag alias gives
TagKbps ==
    LET tags == Update(probe.format.tags, probe.audio.tags)
    IN  IF _first_tag(tags, BitrateAliases) = << >> THEN 0
        ELSE _to_kbps(TextNumber(_first_tag(tags, BitrateAliases))).n

\* C35: in the record a call returns from the output of ffprobe, the
\* duration is the audio stream's when that is positive and the format's only
\* when it is not; the bitrate is the audio stream's when that is positive,
\* the format's only when it is not, and a tag's only when neither is.
C35_StreamValueFirst ==
    (metadata.state = "returned" /\ probe.outcome = "json" /\ probe.audio.present
     /\ probe.format.present) =>
        LET stream_duration == _to_float(probe.audio.duration)
            format_duration == _to_float(probe.format.duration)
            stream_kbps == _to_kbps(probe.audio.bit_rate).n
            format_kbps == _to_kbps(probe.format.bit_rate).n
        IN  /\ metadata.record.duration_seconds =
                    IF Positive(stream_duration) THEN stream_duration
                    ELSE NonNegative(format_duration)
            /\ metadata.record.bitrate_kbps =
                    IF stream_kbps > 0 THEN stream_kbps
                    ELSE IF format_kbps > 0 THEN format_kbps
                    ELSE TagKbps

\* ---------------------------------------------------------------- C36
\* C36: a worker whose read of one track raised, and which nobody
\* interrupted, has emitted song_ready for every later track of its batch by
\* the time run() returns.
C36_SkipAndContinue ==
    \A w \in 1..Len(workers) :
        (workers[w].failed /= 0 /\ ~workers[w].interrupted
         /\ workers[w].pc \in {"returned", "done"}) =>
            \A k \in (workers[w].failed + 1)..Len(workers[w].songs) : workers[w].idx > k

\* ---------------------------------------------------------------- C37
\* C37: when the UI thread has handled an end-of-track signal, the track it
\* credited with "played" is the track whose session reached its end.
C37_PlayedIsTheTrackThatEnded ==
    handled.sig = "track_finished" => handled.name = handled.ended

\* ---------------------------------------------------------------- C39
\* C39: a session that is not left paused is never playing for ever without
\* a live playback thread: again and again, playing is false, or the session
\* is paused, or a playback thread is alive, or the controller is inside a
\* call.
C39_SessionTerminates ==
    []<>(~playing \/ paused \/ Alive /= {} \/ pc[Ctl] /= "idle")

====
